---- MODULE Spec2Model ----
(***************************************************************************)
(* A model of the conversation pipeline of the campus course assistant:    *)
(* session and message persistence (utils/database.py,                     *)
(* modules/chat_management.py), message handling (modules/ui_handlers.py), *)
(* intent classification and routing (modules/intent_recognition.py,       *)
(* modules/intent_router.py, utils/llm_utils.py), retrieval                *)
(* (modules/rag.py, modules/file_processing.py) and web search             *)
(* (modules/web_search.py).                                                *)
(*                                                                         *)
(* Python strings are sequences of one-character strings.  A Python value  *)
(* that may or may not be a string is a record [type, v].  The result of a *)
(* call is a record [kind, val] with kind "return" or "raise".             *)
(***************************************************************************)
EXTENDS Naturals, Sequences, FiniteSets, TLC

VARIABLES
    sessions,      \* table sessions: sid -> [phone, title, created]
    messages,      \* table messages in rowid order: <<[sid, role, content, ts]>>
    clock,         \* the wall clock datetime.now() reads
    collections,   \* the vector store: collection name -> <<[text, session_id]>>
    faults,        \* how many more relational writes the environment may fail
    serial,        \* TRUE when the UI delivers one process_message at a time
    pc,            \* listener -> position inside process_message
    loc,           \* listener -> locals of its process_message call
    renameCalls,   \* sid -> number of auto_rename_session invocations
    turns,         \* sid argument -> number of process_message calls returned
    created,       \* the ids create_session has returned
    users,         \* table users: the registered phones
    files,         \* table files in id order: <<[sid, file_path, file_name, file_type, processed]>>
    disk,          \* the paths that exist under the uploads directory
    login,         \* worker -> position and locals of its ensure_user_has_session call
    call           \* the last application of a pure operation (classifier, router)

vars == <<sessions, messages, clock, collections, faults, serial, pc, loc,
          renameCalls, turns, created, users, files, disk, login, call>>

-----------------------------------------------------------------------------
(* Bounds of the model *)

MaxSessions == 2
MaxTurns == 2
MaxDbFaults == 1
MaxRawLen == 2

-----------------------------------------------------------------------------
(* Python values and results *)

Str(t) == [type |-> "str", v |-> t]
PyNone == [type |-> "NoneType", v |-> <<>>]
Ret(v) == [kind |-> "return", val |-> v]
Raise(e) == [kind |-> "raise", val |-> <<e>>]

LowerLetters == <<"a","b","c","d","e","f","g","h","i","j","k","l","m",
                  "n","o","p","q","r","s","t","u","v","w","x","y","z">>
UpperLetters == <<"A","B","C","D","E","F","G","H","I","J","K","L","M",
                  "N","O","P","Q","R","S","T","U","V","W","X","Y","Z">>
Whitespace == {" ", "\n", "\t"}

\* str.upper(), character by character
UpperChar(c) ==
    IF \E i \in 1..Len(LowerLetters) : LowerLetters[i] = c
    THEN UpperLetters[CHOOSE i \in 1..Len(LowerLetters) : LowerLetters[i] = c]
    ELSE c

Upper(t) == [i \in 1..Len(t) |-> UpperChar(t[i])]

\* str.strip(): drops leading and trailing whitespace
RECURSIVE LStrip(_)
LStrip(t) ==
    IF t # <<>> /\ Head(t) \in Whitespace THEN LStrip(Tail(t)) ELSE t

RECURSIVE RStrip(_)
RStrip(t) ==
    IF t # <<>> /\ t[Len(t)] \in Whitespace
    THEN RStrip(SubSeq(t, 1, Len(t) - 1))
    ELSE t

Strip(t) == RStrip(LStrip(t))

\* all sequences over S of length at most n
RECURSIVE SeqsUpTo(_, _)
SeqsUpTo(S, n) ==
    IF n = 0 THEN {<<>>}
    ELSE LET shorter == SeqsUpTo(S, n - 1)
         IN  shorter \cup {Append(t, c) : t \in shorter, c \in S}

-----------------------------------------------------------------------------
(* The text-generation service and LLMUtils *)

ApiErrorText == <<"s","o","r","r","y">>
LlmExceptionText == <<"e","r","r","o","r">>

\* What client.chat.completions.create can do: answer with text, raise
\* openai.APIError, or fail any other way (a network error, content None).
CompletionKinds == {"text", "api_error", "exception"}

Completion(k, t) == [kind |-> k, text |-> t]

generate_text(completion) ==
    CASE completion.kind = "text" -> Strip(completion.text)
      [] completion.kind = "api_error" -> ApiErrorText
      [] OTHER -> LlmExceptionText

VALID_INTENTS == {<<"A">>, <<"B">>, <<"C">>, <<"D">>, <<"E">>,
                  <<"F">>, <<"G">>, <<"H">>, <<"J">>, <<"K">>}

\* user_input[:50] in the log line raises TypeError on a value that cannot be
\* sliced; the model's only such value is None.
classify_intent(user_input, completion) ==
    IF user_input.type # "str" THEN Raise("TypeError")
    ELSE LET intent == Upper(Strip(generate_text(completion)))
         IN  IF intent \in VALID_INTENTS THEN Ret(intent) ELSE Ret(<<"D">>)

recognize_unguarded(user_input, completion) ==
    IF user_input.type # "str" THEN Raise("TypeError")
    ELSE classify_intent(user_input, completion)

recognize(user_input, completion) ==
    IF user_input.type # "str" THEN Ret(<<"D">>)
    ELSE LET r == classify_intent(user_input, completion)
         IN  IF r.kind = "raise" THEN Ret(<<"D">>)
             ELSE IF r.val \notin VALID_INTENTS THEN Ret(<<"D">>)
             ELSE r

-----------------------------------------------------------------------------
(* Session identifiers *)

\* A caller-supplied identifier is the canonical text of a UUID (what
\* str(uuid.uuid4()) yields), another spelling uuid.UUID accepts (upper case),
\* a text uuid.UUID rejects, or the empty string.
Uuid(i) == [form |-> "canonical", n |-> i]
UpperUuid(i) == [form |-> "upper", n |-> i]
MalformedId == [form |-> "malformed", n |-> 0]
EmptyId == [form |-> "empty", n |-> 0]

UUIDs == {Uuid(i) : i \in 1..MaxSessions}
UpperIds == {UpperUuid(i) : i \in 1..MaxSessions}
AllIds == UUIDs \cup UpperIds \cup {MalformedId, EmptyId}

\* uuid.UUID(s) succeeds
is_uuid(s) == s.form \in {"canonical", "upper"}

\* str(uuid.UUID(s))
uuid_str(s) == Uuid(s.n)

\* uuid.uuid4(): an identifier never handed out before
uuid4(st) ==
    LET free == {i \in 1..MaxSessions : Uuid(i) \notin st.created}
    IN  Uuid(CHOOSE i \in free : \A j \in free : i <= j)

-----------------------------------------------------------------------------
(* The relational store and ChatManager.  An operation is an operator from  *)
(* the store st = [sessions, messages, clock, faults, renameCalls, created, *)
(* collections, users, files, disk, writes, ret] to the store after it,     *)
(* ret being what the operation returned.                                   *)

Phones == {"13800000000"}

Digits == <<"1","2","3","4","5","6","7","8","9">>
WelcomeText == <<"h","e","l","l","o">>
WelcomeTitle == <<"w","e","l","c","o","m","e">>
DefaultTitle(n) == <<"S", Digits[n]>>

Store ==
    [sessions |-> sessions, messages |-> messages, clock |-> clock,
     faults |-> faults, renameCalls |-> renameCalls, created |-> created,
     collections |-> collections, users |-> users, files |-> files,
     disk |-> disk, writes |-> 0, ret |-> FALSE]

\* The environment of one handler run, env = [failAt, tick, completion]:
\* which of the run's relational writes raises sqlite3.Error (0: none), how far
\* the clock moves between two readings, and what the completion service does
\* when the run asks it for a title.
WriteOk(st, env) == ~(st.faults > 0 /\ env.failAt = st.writes + 1)

FailChoices(n) == IF faults > 0 THEN 0..n ELSE {0}

\* datetime.datetime.now() advances between two writes
ClockSteps == {1}

db_create_session(st, sid, phone, title, ts, env) ==
    IF WriteOk(st, env)
    THEN [st EXCEPT !.sessions = @ @@ (sid :> [phone |-> phone, title |-> title,
                                               created |-> ts]),
                    !.writes = @ + 1, !.ret = TRUE]
    ELSE [st EXCEPT !.faults = @ - 1, !.writes = @ + 1, !.ret = FALSE]

\* len(db_manager.get_sessions(phone))
count_sessions(st, phone) ==
    Cardinality({s \in DOMAIN st.sessions : st.sessions[s].phone = phone})

db_add_message(st, sid, role, content, ts, env) ==
    IF WriteOk(st, env)
    THEN [st EXCEPT !.messages = Append(@, [sid |-> sid, role |-> role,
                                            content |-> content, ts |-> ts]),
                    !.writes = @ + 1, !.ret = TRUE]
    ELSE [st EXCEPT !.faults = @ - 1, !.writes = @ + 1, !.ret = FALSE]

\* the rows of sid in table order
RowsOf(msgs, sid) == SelectSeq(msgs, LAMBDA m : m.sid = sid)

\* ORDER BY ts: insertion sort of the rows, a row going after the rows whose
\* ts is not larger
RECURSIVE InsertByTs(_, _)
InsertByTs(sorted, m) ==
    IF sorted = <<>> THEN <<m>>
    ELSE IF Head(sorted).ts <= m.ts
         THEN <<Head(sorted)>> \o InsertByTs(Tail(sorted), m)
         ELSE <<m>> \o sorted

RECURSIVE OrderByTs(_)
OrderByTs(rows) ==
    IF rows = <<>> THEN <<>>
    ELSE InsertByTs(OrderByTs(SubSeq(rows, 1, Len(rows) - 1)), rows[Len(rows)])

Limit(rows, limit) ==
    IF limit = 0 \/ Len(rows) <= limit THEN rows ELSE SubSeq(rows, 1, limit)

\* SELECT role, content, ts FROM messages WHERE sid = ? ORDER BY ts [LIMIT ?];
\* limit 0 stands for None
get_messages(st, sid, limit) == Limit(OrderByTs(RowsOf(st.messages, sid)), limit)

Quotes == {"\"", "'"}

\* new_title.replace('"', '').replace("'", "").strip()
Sanitize(t) == Strip(SelectSeq(t, LAMBDA c : c \notin Quotes))

auto_rename_session(st, sid, env) ==
    LET counted == [st EXCEPT !.renameCalls[sid] = @ + 1]
        msgs == get_messages(st, sid, 10)
        user_messages == SelectSeq(msgs, LAMBDA m : m.role = "user")
        new_title == Sanitize(Strip(generate_text(env.completion)))
    IN  IF Len(msgs) < 2 \/ user_messages = <<>> \/ Len(new_title) < 2
        THEN [counted EXCEPT !.ret = FALSE]
        ELSE IF ~WriteOk(counted, env)
        THEN [counted EXCEPT !.faults = @ - 1, !.writes = @ + 1, !.ret = FALSE]
        ELSE [counted EXCEPT
                !.sessions = [s \in DOMAIN @ |->
                                IF s = sid THEN [@[s] EXCEPT !.title = new_title]
                                ELSE @[s]],
                !.writes = @ + 1, !.ret = TRUE]

\* the same, reporting success whatever the INSERT did
add_message_optimistic(st, sid, role, content, env) ==
    LET ts == st.clock + env.tick
        st1 == db_add_message([st EXCEPT !.clock = ts], sid, role, content, ts, env)
    IN  IF st1.ret /\ role = "assistant" /\ Len(get_messages(st1, sid, 0)) = 2
        THEN [auto_rename_session(st1, sid, env) EXCEPT !.ret = TRUE]
        ELSE [st1 EXCEPT !.ret = TRUE]

add_message(st, sid, role, content, env) ==
    LET ts == st.clock + env.tick
        st1 == db_add_message([st EXCEPT !.clock = ts], sid, role, content, ts, env)
    IN  IF st1.ret /\ role = "assistant" /\ Len(get_messages(st1, sid, 0)) = 2
        THEN [auto_rename_session(st1, sid, env) EXCEPT !.ret = TRUE]
        ELSE st1

\* title <<>> stands for "no title given"
create_session(st, phone, title, env) ==
    LET sid == uuid4(st)
        t == IF title = <<>> THEN DefaultTitle(count_sessions(st, phone) + 1) ELSE title
        ts == st.clock + env.tick
        st1 == db_create_session([st EXCEPT !.clock = ts], sid, phone, t, ts, env)
    IN  IF st1.ret
        THEN [add_message(st1, sid, "assistant", WelcomeText, env) EXCEPT
                !.created = @ \cup {sid}, !.ret = sid]
        ELSE [st1 EXCEPT !.ret = EmptyId]

-----------------------------------------------------------------------------
(* The vector store and RAGSystem *)

top_k == 5

collection_name_shared(sid_str) == <<"session_", "all">>

\* f"session_{sid_str}"
collection_name(sid_str) == <<"session_", sid_str>>

Min(a, b) == IF a <= b THEN a ELSE b

\* What collection.query may rank first: any n_results rows of the collection
\* (all of them when it holds no more than n_results).
Picks(n, k) == {S \in SUBSET (1..n) : Cardinality(S) = Min(n, k)}

RECURSIVE PickRows(_, _, _)
PickRows(rows, pick, i) ==
    IF i > Len(rows) THEN <<>>
    ELSE (IF i \in pick THEN <<rows[i]>> ELSE <<>>) \o PickRows(rows, pick, i + 1)

\* the same, leaving a missing collection missing
retrieve_without_create(st, sid, k, env) ==
    IF ~is_uuid(sid) THEN [st |-> st, hits |-> <<>>]
    ELSE LET name == collection_name(sid)
         IN  IF env.vector = "fails" THEN [st |-> st, hits |-> <<>>]
             ELSE IF name \notin DOMAIN st.collections
             THEN [st |-> st, hits |-> <<>>]
             ELSE LET rows == st.collections[name]
                      pick == IF env.pick \in Picks(Len(rows), k) THEN env.pick
                              ELSE CHOOSE S \in Picks(Len(rows), k) : TRUE
                  IN  [st |-> st, hits |-> PickRows(rows, pick, 1)]

\* env.vector: "ok", or "fails" when a call to the vector store raises.
\* Returns the store after the call and the rows retrieved (the code returns
\* their texts).
retrieve(st, sid, k, env) ==
    IF ~is_uuid(sid) THEN [st |-> st, hits |-> <<>>]
    ELSE LET name == collection_name(sid)
         IN  IF env.vector = "fails" THEN [st |-> st, hits |-> <<>>]
             ELSE IF name \notin DOMAIN st.collections
             THEN [st |-> [st EXCEPT !.collections = @ @@ (name :> <<>>)],
                   hits |-> <<>>]
             ELSE LET rows == st.collections[name]
                      pick == IF env.pick \in Picks(Len(rows), k) THEN env.pick
                              ELSE CHOOSE S \in Picks(Len(rows), k) : TRUE
                  IN  [st |-> st, hits |-> PickRows(rows, pick, 1)]

\* sep.join(docs)
RECURSIVE JoinDocs(_, _)
JoinDocs(docs, sep) ==
    IF docs = <<>> THEN <<>>
    ELSE IF Len(docs) = 1 THEN docs[1]
    ELSE docs[1] \o sep \o JoinDocs(Tail(docs), sep)

\* the documents retrieve returns
Docs(hits) == [i \in 1..Len(hits) |-> hits[i].text]

NoContextText == <<"n","o"," ","c","o","n","t","e","x","t">>

\* the prompt with the first document only
rag_prompt_first(query, context) ==
    <<"Q", ":", " ">> \o query \o <<"\n", "C", ":", " ">>
        \o (IF context = <<>> THEN NoContextText ELSE context[1])

\* the prompt of generate_answer: the question and "\n\n".join(context)
rag_prompt(query, context) ==
    <<"Q", ":", " ">> \o query \o <<"\n", "C", ":", " ">>
        \o (IF context = <<>> THEN NoContextText
            ELSE JoinDocs(context, <<"\n", "\n">>))

generate_answer(context, env) == generate_text(env.completion)

rag_query(st, sid, env) ==
    LET r == retrieve(st, sid, top_k, env)
    IN  [st |-> r.st, ret |-> generate_answer(Docs(r.hits), env), hits |-> r.hits]

-----------------------------------------------------------------------------
(* WebSearch *)

max_retries == 3

NoKeyText == <<"u","n","a","v","a","i","l">>
SnippetsText == <<"s","n","i","p">>
NoResultsText == <<"n","o","n","e">>
SearchFailedText == <<"f","a","i","l","e","d">>

\* What one requests.get can do: time out, answer with an HTTP error, fail
\* another way, or answer with or without organic results.
AttemptOutcomes == {"timeout", "http_error", "error", "results", "no_results"}

\* the loop without retries: the first failed attempt is the last
RECURSIVE search_from_once(_, _)
search_from_once(attempts, i) ==
    IF i > 1
    THEN [ret |-> SearchFailedText, calls |-> i - 1]
    ELSE CASE attempts[i] = "results" -> [ret |-> SnippetsText, calls |-> i]
           [] attempts[i] = "no_results" -> [ret |-> NoResultsText, calls |-> i]
           [] OTHER -> search_from_once(attempts, i + 1)

\* the loop of search from attempt i on: [ret, calls]
RECURSIVE search_from(_, _)
search_from(attempts, i) ==
    IF i > max_retries + 1
    THEN [ret |-> SearchFailedText, calls |-> i - 1]
    ELSE CASE attempts[i] = "results" -> [ret |-> SnippetsText, calls |-> i]
           [] attempts[i] = "no_results" -> [ret |-> NoResultsText, calls |-> i]
           [] OTHER -> search_from(attempts, i + 1)

\* env.api_key: whether SERPAPI_API_KEY is configured; env.attempts: what each
\* request of the run does
search(env) ==
    IF ~env.api_key THEN [ret |-> NoKeyText, calls |-> 0]
    ELSE search_from(env.attempts, 1)

\* The search result goes into the prompt; what comes back is the completion.
summarize_search_results(env) ==
    LET s == search(env)
    IN  [ret |-> generate_text(env.completion), found |-> s.ret, calls |-> s.calls]

-----------------------------------------------------------------------------
(* DailyChat and ProfessionalQA *)

RECURSIVE Contains(_, _)
Contains(t, sub) ==
    IF Len(t) < Len(sub) THEN FALSE
    ELSE SubSeq(t, 1, Len(sub)) = sub \/ Contains(Tail(t), sub)

\* two of the realtime keywords ("now", "today")
realtime_keywords == {<<"n","o","w">>, <<"t","o","d","a","y">>}

_is_realtime_question(text) == \E k \in realtime_keywords : Contains(text, k)

\* the three failure markers looked for in the summary ("unavailable",
\* "error", "timeout")
failure_markers == {<<"u","n","a","v","a","i","l">>, <<"e","r","r","o","r">>,
                    <<"t","i","m","e","o","u","t">>}

ListeningText == <<"h","m","m">>

\* env.completion2: the completion of the second request of one run;
\* searched: the run went through web_searcher.summarize_search_results
generate_response(user_input, history, env) ==
    IF _is_realtime_question(user_input)
    THEN LET s == summarize_search_results(env)
         IN  IF \E m \in failure_markers : Contains(s.ret, m)
             THEN [ret |-> generate_text(env.completion2), calls |-> s.calls,
                   searched |-> TRUE]
             ELSE [ret |-> s.ret, calls |-> s.calls, searched |-> TRUE]
    ELSE [ret |-> generate_text(env.completion), calls |-> 0, searched |-> FALSE]

answer_comparison(env) == generate_text(env.completion)
answer_evaluation(env) == generate_text(env.completion)

-----------------------------------------------------------------------------
(* IntentRouter *)

UnknownIntentText == <<"u","n","k","n","o","w","n">>
RouteErrorText == <<"a","p","o","l","o","g","y">>

\* the table with a handler for B as well
intent_handlers_with_B ==
    {<<"A">>, <<"B">>, <<"C">>, <<"E">>, <<"F">>, <<"G">>, <<"H">>, <<"J">>, <<"K">>}

intent_handlers == {<<"A">>, <<"C">>, <<"E">>, <<"F">>, <<"G">>, <<"H">>, <<"J">>, <<"K">>}

\* A history is None or a list; an item of the list is a tuple of n elements
\* (sized) or a value len() rejects.
HistoryList(items) == [type |-> "list", v |-> items]
Item(n) == [sized |-> TRUE, n |-> n]
Unsized == [sized |-> FALSE, n |-> 0]

\* the handler of a mapped intent: [st, ret, used], ret a result
handle(st, intent, user_input, sid, history, env) ==
    CASE intent \in {<<"A">>, <<"K">>} ->
            LET r == rag_query(st, sid, env)
            IN  [st |-> r.st, ret |-> Ret(r.ret), used |-> {"rag"}]
      [] intent = <<"C">> ->
            IF history.type = "list" /\ \E i \in 1..Len(history.v) : ~history.v[i].sized
            THEN [st |-> st, ret |-> Raise("TypeError"), used |-> {}]
            ELSE LET r == generate_response(user_input, history, env)
                 IN  [st |-> st, ret |-> Ret(r.ret),
                      used |-> {"daily_chat"} \cup (IF r.searched THEN {"web_search"} ELSE {})]
      [] intent \in {<<"E">>, <<"F">>, <<"J">>} ->
            [st |-> st, ret |-> Ret(summarize_search_results(env).ret),
             used |-> {"web_search"}]
      [] intent = <<"G">> ->
            [st |-> st, ret |-> Ret(answer_comparison(env)), used |-> {"professional_qa"}]
      [] OTHER ->
            [st |-> st, ret |-> Ret(answer_evaluation(env)), used |-> {"professional_qa"}]

route_unguarded(st, intent, user_input, sid, history, env) ==
    IF user_input.type # "str" THEN [st |-> st, ret |-> Raise("TypeError"), used |-> {}]
    ELSE IF intent \notin intent_handlers
    THEN [st |-> st, ret |-> Ret(UnknownIntentText), used |-> {}]
    ELSE handle(st, intent, user_input.v, sid, history, env)

route(st, intent, user_input, sid, history, env) ==
    IF user_input.type # "str" THEN [st |-> st, ret |-> Raise("TypeError"), used |-> {}]
    ELSE IF intent \notin intent_handlers
    THEN [st |-> st, ret |-> Ret(UnknownIntentText), used |-> {}]
    ELSE LET r == handle(st, intent, user_input.v, sid, history, env)
         IN  IF r.ret.kind = "raise" THEN [r EXCEPT !.ret = Ret(RouteErrorText)] ELSE r

-----------------------------------------------------------------------------
(* FileProcessor.process_file *)

batch_size == 50
progress_threshold == 100

\* f"... {file_name}..."
StartText(file_name) == <<"s","t","a","r","t"," ">> \o file_name
LoadFailedText == <<"u","n","r","e","a","d">>
EmptyChunksText == <<"e","m","p","t","y">>
SplitFailedText == <<"s","p","l","i","t">>
VectorDownText == <<"d","o","w","n">>
ProgressText == <<"p","c","t">>
ProcessedText == <<"d","o","n","e">>
StoreFailedText == <<"n","o","t"," ","s","t","o","r","e","d">>

\* chunk i of the document named f and its metadata
\* str(i)
RECURSIVE Decimal(_)
Decimal(n) ==
    LET digit(d) == IF d = 0 THEN "0" ELSE Digits[d]
    IN  IF n < 10 THEN <<digit(n)>> ELSE Decimal(n \div 10) \o <<digit(n % 10)>>

\* chunk i of document f: its text is the document's name and the chunk's
\* number
Chunk(f, i, sid_str) ==
    [text |-> f \o Decimal(i), source |-> f, chunk_index |-> i - 1,
     session_id |-> sid_str]

\* the batches from offset i on; env.failBatch is the batch whose
\* collection.add raises (0: none)
RECURSIVE store_batches(_, _, _, _, _)
store_batches(st, name, chunks, i, env) ==
    IF i >= Len(chunks) THEN [st EXCEPT !.ret = TRUE]
    ELSE IF env.failBatch = (i \div batch_size) + 1 THEN [st EXCEPT !.ret = FALSE]
    ELSE LET batch_end == Min(i + batch_size, Len(chunks))
             st1 == [st EXCEPT !.collections[name] = @ \o SubSeq(chunks, i + 1, batch_end)]
             st2 == IF Len(chunks) > progress_threshold
                    THEN add_message(st1, chunks[1].session_id, "system", ProgressText, env)
                    ELSE st1
         IN  store_batches(st2, name, chunks, i + batch_size, env)

\* env.load: "docs" or "none" (the loader found nothing, failed or timed out);
\* env.split: "ok", or "raise" when the splitter raises;
\* env.chunks: how many chunks the splitter yields;
\* env.vector: "ok" or "fails" (get_or_create_collection raises)
process_file(st, sid, file_name, env) ==
    IF ~is_uuid(sid) THEN [st EXCEPT !.ret = FALSE]
    ELSE
    LET sid_str == uuid_str(sid)
        st1 == add_message(st, sid_str, "system", StartText(file_name), env)
        name == collection_name(sid_str)
        fail(s, text) == [add_message(s, sid_str, "system", text, env) EXCEPT !.ret = FALSE]
    IN  IF env.load = "none" THEN fail(st1, LoadFailedText)
        ELSE IF env.split = "raise" THEN fail(st1, SplitFailedText)
        ELSE IF env.chunks = 0 THEN fail(st1, EmptyChunksText)
        ELSE IF env.vector = "fails" THEN fail(st1, VectorDownText)
        ELSE
        LET st2 == IF name \in DOMAIN st1.collections THEN st1
                   ELSE [st1 EXCEPT !.collections = @ @@ (name :> <<>>)]
            chunks == [i \in 1..env.chunks |-> Chunk(file_name, i, sid_str)]
            st3 == store_batches(st2, name, chunks, 0, env)
        IN  IF st3.ret
            THEN [add_message(st3, sid_str, "assistant", ProcessedText, env) EXCEPT !.ret = TRUE]
            ELSE fail(st3, StoreFailedText)

-----------------------------------------------------------------------------
(* FileProcessor.save_file and FileUploadHandler.handle_file_upload *)

SUPPORTED_FILE_FORMATS ==
    <<<<"p","d","f">>, <<"d","o","c","x">>, <<"t","x","t">>, <<"p","p","t","x">>,
      <<"h","t","m","l">>, <<"i","p","y","n","b">>>>

Supported == {SUPPORTED_FILE_FORMATS[i] : i \in 1..Len(SUPPORTED_FILE_FORMATS)}

\* str.lower(), character by character
LowerChar(c) ==
    IF \E i \in 1..Len(UpperLetters) : UpperLetters[i] = c
    THEN LowerLetters[CHOOSE i \in 1..Len(UpperLetters) : UpperLetters[i] = c]
    ELSE c

Lower(t) == [i \in 1..Len(t) |-> LowerChar(t[i])]

\* the positions of character c in t
Positions(t, c) == {i \in 1..Len(t) : t[i] = c}

Last(S) == CHOOSE i \in S : \A j \in S : j <= i

\* Path(filename).name: what follows the last "/"
PathName(t) ==
    IF Positions(t, "/") = {} THEN t
    ELSE SubSeq(t, Last(Positions(t, "/")) + 1, Len(t))

WordChars ==
    {LowerLetters[i] : i \in 1..Len(LowerLetters)}
        \cup {UpperLetters[i] : i \in 1..Len(UpperLetters)}
        \cup {Digits[i] : i \in 1..Len(Digits)} \cup {"0", "_", "-", "."}

\* re.sub(r'[^\w\-_\.]', '_', ...) on the last path component
sanitize_filename(filename) ==
    LET name == PathName(filename)
    IN  [i \in 1..Len(name) |-> IF name[i] \in WordChars THEN name[i] ELSE "_"]

\* Path(name).suffix.lower().lstrip("."): what follows the last dot, when that
\* dot is neither the first nor the last character of the name
FileType(name) ==
    LET dots == Positions(name, ".")
    IN  IF dots = {} \/ Last(dots) = 1 \/ Last(dots) = Len(name) THEN <<>>
        ELSE Lower(SubSeq(name, Last(dots) + 1, Len(name)))

RECURSIVE Join(_, _)
Join(ts, sep) ==
    IF ts = <<>> THEN <<>>
    ELSE IF Len(ts) = 1 THEN ts[1]
    ELSE ts[1] \o sep \o Join(Tail(ts), sep)

\* the message of save_file for a format it does not support
UnsupportedFormatError(file_type) ==
    <<"u","n","s","u","p","p","o","r","t","e","d"," ">> \o file_type
        \o <<" ","s","u","p","p","o","r","t","e","d"," ">>
        \o Join(SUPPORTED_FILE_FORMATS, <<",", " ">>)

InvalidSidError == <<"b","a","d"," ","s","i","d">>
SaveFailedError(msg) == <<"s","a","v","e"," ","f","a","i","l","e","d"," ">> \o msg
IoError == <<"i","o">>

\* the directories and the file save_file writes: uploads/phone,
\* uploads/phone/sid and uploads/phone/sid/<uuid4 hex>_<name>
UserDir(phone) == <<phone>>
SessionDir(phone, sid) == <<phone, sid>>
SavePath(st, phone, sid, name) == <<phone, sid, Cardinality(st.disk), name>>

\* INSERT INTO files ...; processed defaults to 0
add_file(st, sid, file_path, file_name, file_type, env) ==
    IF WriteOk(st, env)
    THEN [st EXCEPT !.files = Append(@, [sid |-> sid, file_path |-> file_path,
                                         file_name |-> file_name,
                                         file_type |-> file_type, processed |-> 0]),
                    !.writes = @ + 1, !.ret = Len(st.files) + 1]
    ELSE [st EXCEPT !.faults = @ - 1, !.writes = @ + 1, !.ret = 0]

\* file_data is the name the upload came with; env.copy: "ok", or "fails" when
\* mkdir or the copy raises OSError.  ret is the result of the call.
save_file(st, file_data, phone, sid, env) ==
    LET original_filename == sanitize_filename(file_data)
        file_type == FileType(original_filename)
        save_path == SavePath(st, phone, sid, original_filename)
        dirs == {UserDir(phone), SessionDir(phone, sid)}
    IN  IF ~is_uuid(sid)
        THEN [st EXCEPT !.ret = Raise(SaveFailedError(InvalidSidError))]
        ELSE IF file_type \notin Supported
        THEN [st EXCEPT !.ret = Raise(SaveFailedError(UnsupportedFormatError(file_type)))]
        ELSE IF env.copy = "fails"
        THEN [st EXCEPT !.disk = @ \cup dirs, !.ret = Raise(SaveFailedError(IoError))]
        ELSE [add_file([st EXCEPT !.disk = @ \cup dirs \cup {save_path}], sid,
                       save_path, original_filename, file_type, env)
                EXCEPT !.ret = Ret(save_path)]

NumText(n) == IF n = 0 THEN <<"0">> ELSE <<Digits[n]>>

UploadTitle == <<"u","p","l","o","a","d">>
UnsupportedText(file_type) == <<"u","n","s","u","p","p","o","r","t","e","d"," ">> \o file_type
SaveFailedText(name) == <<"n","o","t"," ","s","a","v","e","d"," ">> \o name
UploadedText(name) == <<"u","p","l","o","a","d","e","d"," ">> \o name
ProcessFailedText(name) == <<"f","a","i","l","e","d"," ">> \o name

\* " | ".join(summary_parts)
SummaryText(processed_count, failed) ==
    Join((IF processed_count > 0 THEN <<<<"o","k"," ">> \o NumText(processed_count)>> ELSE <<>>)
           \o (IF failed > 0 THEN <<<<"f","a","i","l","e","d"," ">> \o NumText(failed)>> ELSE <<>>),
         <<" ", "|", " ">>)

\* phone.isdigit() and len(phone) == 11
valid_phone(phone) == phone \in Phones

\* one pass of the loop's body for the file file_data: [st, ok], ok when the
\* file was saved and vectorized
upload_file(st, file_data, phone, sid, env) ==
    LET original_filename == sanitize_filename(file_data)
        file_type == FileType(original_filename)
        saved == save_file(st, file_data, phone, sid, env)
        done == process_file(saved, sid, original_filename, env)
    IN  IF file_type \notin Supported
        THEN [st |-> add_message(st, sid, "system", UnsupportedText(file_type), env),
              ok |-> FALSE]
        ELSE IF saved.ret.kind = "raise"
        THEN [st |-> add_message(saved, sid, "system",
                                 SaveFailedText(original_filename), env),
              ok |-> FALSE]
        ELSE IF done.ret
        THEN [st |-> add_message(done, sid, "assistant",
                                 UploadedText(original_filename), env),
              ok |-> TRUE]
        ELSE [st |-> add_message(done, sid, "system",
                                 ProcessFailedText(original_filename), env),
              ok |-> FALSE]

\* the loop, giving up at the first file that fails
RECURSIVE upload_loop_abort(_, _, _, _, _, _, _, _)
upload_loop_abort(st, uploads, envs, phone, sid, i, processed_count, failed_files) ==
    IF i > Len(uploads)
    THEN [st |-> st, processed_count |-> processed_count, failed_files |-> failed_files]
    ELSE CHOOSE out \in
            {IF r.ok
             THEN upload_loop_abort(r.st, uploads, envs, phone, sid, i + 1,
                                    processed_count + 1, failed_files)
             ELSE [st |-> r.st, processed_count |-> processed_count,
                   failed_files |-> Append(failed_files, sanitize_filename(uploads[i]))]
               : r \in {upload_file(st, uploads[i], phone, sid, envs[i])}} : TRUE

\* the loop over the files from file i on; envs[i] is the environment of the
\* run for file i.  [st, processed_count, failed_files]
RECURSIVE upload_loop(_, _, _, _, _, _, _, _)
upload_loop(st, uploads, envs, phone, sid, i, processed_count, failed_files) ==
    IF i > Len(uploads)
    THEN [st |-> st, processed_count |-> processed_count, failed_files |-> failed_files]
    ELSE CHOOSE out \in
            {upload_loop(r.st, uploads, envs, phone, sid, i + 1,
                         IF r.ok THEN processed_count + 1 ELSE processed_count,
                         IF r.ok THEN failed_files
                         ELSE Append(failed_files, sanitize_filename(uploads[i])))
               : r \in {upload_file(st, uploads[i], phone, sid, envs[i])}} : TRUE

\* [st, ret, processed_count, failed_files]: ret is the session identifier the
\* handler returns
handle_file_upload(st, uploads, phone, sid, env, envs) ==
    IF ~valid_phone(phone)
    THEN [st |-> st, ret |-> sid, processed_count |-> 0, failed_files |-> <<>>]
    ELSE
    LET st0 == IF is_uuid(sid) THEN [st EXCEPT !.ret = sid]
               ELSE create_session(st, phone, UploadTitle, env)
        actual_sid == st0.ret
        r == upload_loop(st0, uploads, envs, phone, actual_sid, 1, 0, <<>>)
        summary == SummaryText(r.processed_count, Len(r.failed_files))
    IN  IF uploads = <<>>
        THEN [st |-> st0, ret |-> actual_sid, processed_count |-> 0, failed_files |-> <<>>]
        ELSE [r EXCEPT !.st = add_message(r.st, actual_sid, "assistant", summary, env)]
               @@ [ret |-> actual_sid]

-----------------------------------------------------------------------------
(* DatabaseManager.add_user and AdminManager.delete_user *)

\* db_manager.get_user(phone) finds a row
get_user(st, phone) == phone \in st.users

\* INSERT INTO users unless the phone is registered
add_user(st, phone) ==
    IF get_user(st, phone) THEN [st EXCEPT !.ret = FALSE]
    ELSE [st EXCEPT !.users = @ \cup {phone}, !.ret = TRUE]

\* SELECT sid FROM sessions WHERE phone = ?
SessionsOfUser(st, phone) == {s \in DOMAIN st.sessions : st.sessions[s].phone = phone}

\* DELETE FROM messages and files for each session of the user, then the
\* sessions and the user; the vector store and the upload directory are not
\* touched
delete_user(st, phone) ==
    IF ~get_user(st, phone) THEN [st EXCEPT !.ret = FALSE]
    ELSE LET sids == SessionsOfUser(st, phone)
         IN  [st EXCEPT
                !.messages = SelectSeq(@, LAMBDA m : m.sid \notin sids),
                !.files = SelectSeq(@, LAMBDA f : f.sid \notin sids),
                !.sessions = [s \in DOMAIN @ \ sids |-> @[s]],
                !.users = @ \ {phone},
                !.ret = TRUE]

-----------------------------------------------------------------------------
(* ChatManager.ensure_user_has_session *)

\* SELECT sid ... WHERE phone = ? ORDER BY created DESC, over the sessions S
RECURSIVE ByCreatedDesc(_, _)
ByCreatedDesc(st, S) ==
    IF S = {} THEN <<>>
    ELSE LET s == CHOOSE x \in S :
                     \A y \in S : st.sessions[y].created <= st.sessions[x].created
         IN  <<s>> \o ByCreatedDesc(st, S \ {s})

get_sessions(st, phone) == ByCreatedDesc(st, SessionsOfUser(st, phone))

NoPhone == ""

\* the same, creating a session whether or not the user has one
ensure_user_has_session_eager(st, phone, env) ==
    IF phone = NoPhone THEN [st EXCEPT !.ret = EmptyId]
    ELSE create_session(st, phone, WelcomeTitle, env)

\* ret is the identifier returned, EmptyId standing for ""
ensure_user_has_session(st, phone, env) ==
    IF phone = NoPhone THEN [st EXCEPT !.ret = EmptyId]
    ELSE LET existing_sessions == get_sessions(st, phone)
         IN  IF existing_sessions # <<>>
             THEN [st EXCEPT !.ret = existing_sessions[1]]
             ELSE create_session(st, phone, WelcomeTitle, env)

-----------------------------------------------------------------------------
(* ChatManager.get_grouped_sessions_for_display *)

\* Time is counted in hours; datetime.date() of a time is its day
HoursPerDay == 24
Date(ts) == ts \div HoursPerDay

\* the value of a header entry
GroupMarker == [form |-> "__GROUP__", n |-> 0]

\* the keys of the dict grouped, in insertion order
GroupNames == <<"today", "yesterday", "last7", "older">>

\* one dict per session, newest first
get_all_sessions_for_user(st, phone) ==
    IF phone = NoPhone THEN <<>>
    ELSE LET sids == get_sessions(st, phone)
         IN  [i \in 1..Len(sids) |->
                [sid |-> sids[i], title |-> st.sessions[sids[i]].title,
                 created |-> st.sessions[sids[i]].created,
                 message_count |-> Len(RowsOf(st.messages, sids[i]))]]

\* the same, a session created seven days ago counting as older
group_of_strict(created_date, today) ==
    IF created_date = today THEN "today"
    ELSE IF created_date = today - 1 THEN "yesterday"
    ELSE IF created_date > today - 7 THEN "last7"
    ELSE "older"

\* the if/elif chain that picks the group of a session
group_of(created_date, today) ==
    IF created_date = today THEN "today"
    ELSE IF created_date = today - 1 THEN "yesterday"
    ELSE IF created_date >= today - 7 THEN "last7"
    ELSE "older"

\* the entries of the groups from group g on: a header, then the sessions
RECURSIVE display_choices(_, _, _)
display_choices(infos, today, g) ==
    IF g > Len(GroupNames) THEN <<>>
    ELSE LET group_sessions ==
                 SelectSeq(infos, LAMBDA s : group_of(Date(s.created), today) = GroupNames[g])
             header == [label |-> [group |-> GroupNames[g], count |-> Len(group_sessions)],
                        value |-> GroupMarker]
             entries == [i \in 1..Len(group_sessions) |->
                           [label |-> group_sessions[i], value |-> group_sessions[i].sid]]
         IN  (IF group_sessions = <<>> THEN <<>> ELSE <<header>> \o entries)
                \o display_choices(infos, today, g + 1)

\* [st, ret]: a user without sessions gets one before the list is built
get_grouped_sessions_for_display(st, phone, env) ==
    IF phone = NoPhone THEN [st |-> st, ret |-> <<>>]
    ELSE LET st1 == IF get_all_sessions_for_user(st, phone) = <<>>
                    THEN create_session(st, phone, WelcomeTitle, env)
                    ELSE st
         IN  [st |-> st1,
              ret |-> display_choices(get_all_sessions_for_user(st1, phone),
                                      Date(st1.clock), 1)]

-----------------------------------------------------------------------------
(* FileProcessor.process_uploaded_files *)

\* db_manager.get_unprocessed_files(sid_str): DatabaseManager defines no
\* method of that name, so the attribute lookup raises AttributeError
get_unprocessed_files(st, sid_str) == Raise("AttributeError")

\* UPDATE files SET processed = 1 WHERE id IN file_ids
mark_files_processed(st, file_ids) ==
    [st EXCEPT !.files = [k \in 1..Len(@) |->
                            IF k \in file_ids THEN [@[k] EXCEPT !.processed = 1]
                            ELSE @[k]]]

\* the loop over the rows from row i on: [st, processed_count, file_ids]
RECURSIVE process_rows(_, _, _, _, _, _, _)
process_rows(st, sid_str, rows, i, processed_count, file_ids, env) ==
    IF i > Len(rows)
    THEN [st |-> st, processed_count |-> processed_count, file_ids |-> file_ids]
    ELSE IF rows[i].file_path \notin st.disk
    THEN process_rows(st, sid_str, rows, i + 1, processed_count, file_ids, env)
    ELSE CHOOSE out \in
            {process_rows(done, sid_str, rows, i + 1,
                          IF done.ret THEN processed_count + 1 ELSE processed_count,
                          IF done.ret THEN file_ids \cup {rows[i].id} ELSE file_ids, env)
               : done \in {process_file(st, sid_str, rows[i].file_name, env)}} : TRUE

\* ret is the number the method returns
process_uploaded_files(st, sid, env) ==
    IF ~is_uuid(sid) THEN [st EXCEPT !.ret = 0]
    ELSE LET unprocessed_files == get_unprocessed_files(st, sid)
         IN  IF unprocessed_files.kind = "raise" THEN [st EXCEPT !.ret = 0]
             ELSE IF unprocessed_files.val = <<>> THEN [st EXCEPT !.ret = 0]
             ELSE LET r == process_rows(st, sid, unprocessed_files.val, 1, 0, {}, env)
                  IN  [(IF r.file_ids # {} THEN mark_files_processed(r.st, r.file_ids)
                        ELSE r.st) EXCEPT !.ret = r.processed_count]

-----------------------------------------------------------------------------
(* State after construction *)

Listeners == {"send_btn.click", "message_input.submit"}

NoLocals ==
    [text |-> <<>>, sid |-> EmptyId, sid_str |-> EmptyId, intent |-> <<>>,
     reply |-> <<>>, userSaved |-> FALSE, replySaved |-> FALSE]

NoCall == [op |-> "none"]

\* the threads on which the UI framework runs the login handlers
Workers == {"worker1", "worker2"}

NoLogin == [pc |-> "idle", phone |-> NoPhone, existing_sessions |-> <<>>, ret |-> EmptyId]

InitStore ==
    /\ sessions = <<>>
    /\ messages = <<>>
    /\ clock = 0
    /\ collections = <<>>
    /\ pc = [p \in Listeners |-> "idle"]
    /\ loc = [p \in Listeners |-> NoLocals]
    /\ login = [w \in Workers |-> NoLogin]
    /\ renameCalls = [s \in AllIds |-> 0]
    /\ turns = [s \in AllIds |-> 0]
    /\ created = {}
    /\ users = {}
    /\ files = <<>>
    /\ disk = {}
    /\ call = NoCall

\* the store after an operation
SetStore(st) ==
    /\ sessions' = st.sessions
    /\ messages' = st.messages
    /\ clock' = st.clock
    /\ faults' = st.faults
    /\ renameCalls' = st.renameCalls
    /\ created' = st.created
    /\ collections' = st.collections
    /\ users' = st.users
    /\ files' = st.files
    /\ disk' = st.disk

fileVars == <<users, files, disk>>
storeVars == <<sessions, messages, clock, faults, renameCalls, created, collections,
               fileVars>>
procVars == <<pc, loc, turns, login>>

TextCompletion(t) == Completion("text", t)
ApiError == Completion("api_error", <<>>)
LlmException == Completion("exception", <<>>)

-----------------------------------------------------------------------------
(* The classifier applied to every input and every behaviour of the service *)

IntentAlphabet == {"A", "b", "d", "K", "I", " ", "."}

IntentCompletions ==
    {TextCompletion(t) : t \in SeqsUpTo(IntentAlphabet, MaxRawLen)}
        \cup {ApiError, LlmException}

RecognizeInputs == {Str(<<"h","i">>), Str(<<>>), PyNone}

Recognize ==
    /\ call.op = "none"
    /\ \E user_input \in RecognizeInputs, completion \in IntentCompletions :
          call' = [op |-> "recognize", user_input |-> user_input,
                   completion |-> completion,
                   result |-> recognize(user_input, completion)]
    /\ UNCHANGED <<storeVars, procVars, serial>>

InitIntent == InitStore /\ faults = 0 /\ serial = TRUE
NextIntent == Recognize
SpecIntent == InitIntent /\ [][NextIntent]_vars

-----------------------------------------------------------------------------
(* The router applied to every intent, text, history and handler outcome *)

RouteIntents == VALID_INTENTS \cup {<<"Z">>, <<>>}
RouteTexts == {Str(<<"h","i">>), Str(<<"n","o","w">>), PyNone}
RouteSids == {Uuid(1), MalformedId}
Histories == {PyNone, HistoryList(<<Item(2)>>), HistoryList(<<Item(2), Unsized>>)}
ReplyCompletions == {TextCompletion(<<"o","k">>), ApiError, LlmException}
RouteFailures == {"timeout", "http_error"}

\* the requests one search can make: failures up to the first answer, or
\* max_retries + 1 failures
SearchRuns(failures, answers) ==
    {fs \o <<a>> : fs \in SeqsUpTo(failures, max_retries), a \in answers}
        \cup (SeqsUpTo(failures, max_retries + 1) \ SeqsUpTo(failures, max_retries))

RouteEnvs ==
    [vector : {"ok", "fails"}, pick : {{}}, completion : ReplyCompletions,
     completion2 : {TextCompletion(<<"l","a","t","e","r">>), ApiError},
     api_key : BOOLEAN, attempts : SearchRuns(RouteFailures, {"results"})]

Route ==
    /\ call.op = "none"
    /\ \E intent \in RouteIntents, user_input \in RouteTexts, sid \in RouteSids,
          history \in Histories, env \in RouteEnvs :
          LET r == route(Store, intent, user_input, sid, history, env)
          IN  /\ call' = [op |-> "route", intent |-> intent, user_input |-> user_input,
                          sid |-> sid, history |-> history, env |-> env,
                          result |-> r.ret, used |-> r.used]
              /\ collections' = r.st.collections
    /\ UNCHANGED <<sessions, messages, clock, faults, renameCalls, created, fileVars,
                   procVars, serial>>

InitRoute == InitStore /\ faults = 0 /\ serial = TRUE
NextRoute == Route
SpecRoute == InitRoute /\ [][NextRoute]_vars

-----------------------------------------------------------------------------
(* Conversations: SessionManager.create_new_session and                    *)
(* MessageHandler.process_message, one listener per event that is bound to *)
(* it.  A call moves through the numbered steps of process_message; other  *)
(* handlers may run between two steps when calls are not serialized.       *)

UserTexts == {<<"h","i">>}
BlankTexts == {<<>>, <<" ">>}

WriteEnvs(n) ==
    [failAt : FailChoices(n), tick : ClockSteps,
     completion : {TextCompletion(<<"T","o","p","i","c">>), ApiError}]

ChatIntentCompletions ==
    {TextCompletion(<<"A">>), TextCompletion(<<"c">>), TextCompletion(<<"?">>)}

RECURSIVE SumOver(_, _)
SumOver(f, S) ==
    IF S = {} THEN 0
    ELSE LET x == CHOOSE y \in S : TRUE IN f[x] + SumOver(f, S \ {x})

TurnsStarted ==
    SumOver(turns, AllIds) + Cardinality({p \in Listeners : pc[p] # "idle"})

Idle == \A p \in Listeners : pc[p] = "idle"

\* the rows of a session as get_messages returns them
Log(s) == get_messages(Store, s, 0)

NewSession ==
    /\ Cardinality(created) < MaxSessions
    /\ serial => Idle
    /\ \E phone \in Phones, env \in WriteEnvs(2) :
          SetStore(create_session(Store, phone, <<>>, env))
    /\ UNCHANGED <<procVars, serial, call>>

\* what a call of process_message returned: the identifier it was given, the
\* identifier it validated or created, and the identifier in its result
Returned(sid, sid_str, ret, stored) ==
    [op |-> "process_message", sid |-> sid, sid_str |-> sid_str, ret |-> ret,
     stored |-> stored]

\* an empty message returns at once
PM_Empty(p) ==
    /\ pc[p] = "idle"
    /\ serial => Idle
    /\ \E text \in BlankTexts, sid \in created \cup {MalformedId} :
          /\ Strip(text) = <<>>
          /\ call' = Returned(sid, sid, sid, FALSE)
    /\ UNCHANGED <<storeVars, procVars, serial>>

\* lines 310-327: strip the text, validate the identifier, create a session
\* for an identifier that is no UUID
PM_Start(p) ==
    /\ pc[p] = "idle"
    /\ serial => Idle
    /\ TurnsStarted < MaxTurns
    /\ \E text \in UserTexts, sid \in created \cup {MalformedId}, phone \in Phones,
          env \in WriteEnvs(2) :
          /\ Strip(text) # <<>>
          /\ is_uuid(sid) \/ Cardinality(created) < MaxSessions
          /\ LET st == IF is_uuid(sid) THEN [Store EXCEPT !.ret = sid]
                       ELSE create_session(Store, phone, <<>>, env)
             IN  /\ SetStore(st)
                 /\ loc' = [loc EXCEPT ![p] = [NoLocals EXCEPT !.text = Strip(text),
                                                              !.sid = sid,
                                                              !.sid_str = st.ret]]
    /\ pc' = [pc EXCEPT ![p] = "save_user"]
    /\ UNCHANGED <<turns, login, serial, call>>

\* steps 1-3: the user message is saved under the identifier the caller
\* passed, and the result of add_message is not looked at
PM_SaveUser(p) ==
    /\ pc[p] = "save_user"
    /\ \E env \in WriteEnvs(2) :
          LET st == add_message(Store, loc[p].sid, "user", loc[p].text, env)
          IN  /\ SetStore(st)
              /\ loc' = [loc EXCEPT ![p].userSaved = st.ret]
    /\ pc' = [pc EXCEPT ![p] = "recognize"]
    /\ UNCHANGED <<turns, login, serial, call>>

\* step 4
PM_Recognize(p) ==
    /\ pc[p] = "recognize"
    /\ \E completion \in ChatIntentCompletions :
          loc' = [loc EXCEPT ![p].intent = recognize(Str(loc[p].text), completion).val]
    /\ pc' = [pc EXCEPT ![p] = "route"]
    /\ UNCHANGED <<storeVars, turns, login, serial, call>>

\* the history handed to the router: (role, content) of the rows read at step 2
Formatted(s) == HistoryList([i \in 1..Len(Log(s)) |-> Item(2)])

ChatRouteEnvs(sid) ==
    [vector : {"ok"},
     pick : IF is_uuid(sid) /\ collection_name(sid) \in DOMAIN collections
            THEN Picks(Len(collections[collection_name(sid)]), top_k) ELSE {{}},
     completion : {TextCompletion(<<"o","k">>), ApiError},
     completion2 : {ApiError}, api_key : {TRUE},
     attempts : {<<"results">>, <<"timeout","timeout","timeout","timeout">>}]

\* step 5
PM_Route(p) ==
    /\ pc[p] = "route"
    /\ \E env \in ChatRouteEnvs(loc[p].sid) :
          LET r == route(Store, loc[p].intent, Str(loc[p].text), loc[p].sid,
                         Formatted(loc[p].sid), env)
          IN  /\ collections' = r.st.collections
              /\ loc' = [loc EXCEPT ![p].reply = r.ret.val]
    /\ pc' = [pc EXCEPT ![p] = "save_reply"]
    /\ UNCHANGED <<sessions, messages, clock, faults, renameCalls, created, fileVars, turns,
                   login, serial, call>>

\* step 6
PM_SaveReply(p) ==
    /\ pc[p] = "save_reply"
    /\ \E env \in WriteEnvs(2) :
          LET st == add_message(Store, loc[p].sid, "assistant", loc[p].reply, env)
          IN  /\ SetStore(st)
              /\ loc' = [loc EXCEPT ![p].replySaved = st.ret]
    /\ pc' = [pc EXCEPT ![p] = "return"]
    /\ UNCHANGED <<turns, login, serial, call>>

\* steps 7-9 and the return: the history is read back and the identifier the
\* caller passed is returned
PM_Return(p) ==
    /\ pc[p] = "return"
    /\ call' = Returned(loc[p].sid, loc[p].sid_str, loc[p].sid, TRUE)
    /\ loc' = [loc EXCEPT ![p] = NoLocals]
    /\ turns' = [turns EXCEPT ![loc[p].sid] = @ + 1]
    /\ pc' = [pc EXCEPT ![p] = "idle"]
    /\ UNCHANGED <<storeVars, login, serial>>

process_message(p) ==
    \/ PM_Empty(p)
    \/ PM_Start(p)
    \/ PM_SaveUser(p)
    \/ PM_Recognize(p)
    \/ PM_Route(p)
    \/ PM_SaveReply(p)
    \/ PM_Return(p)

NextChat ==
    \/ NewSession
    \/ \E p \in Listeners : process_message(p)

\* calls arrive one at a time and a relational write may fail
Init == InitStore /\ faults = MaxDbFaults /\ serial = TRUE
Spec == Init /\ [][NextChat]_vars

\* calls of the two listeners overlap and no write fails
InitConcurrent == InitStore /\ faults = 0 /\ serial = FALSE
SpecConcurrent == InitConcurrent /\ [][NextChat]_vars

-----------------------------------------------------------------------------
(* Any caller appending to a session's log *)

MaxRows == 4

Roles == {"user", "assistant", "system"}

AddMessage ==
    /\ Len(messages) < MaxRows
    /\ \E sid \in created, role \in Roles, env \in WriteEnvs(2) :
          SetStore(add_message(Store, sid, role, <<"h","i">>, env))
    /\ UNCHANGED <<procVars, serial, call>>

NextLog ==
    \/ NewSession
    \/ AddMessage

InitLog == InitStore /\ faults = 0 /\ serial = TRUE
SpecLog == InitLog /\ [][NextLog]_vars

-----------------------------------------------------------------------------
(* Ingestion into and retrieval from the sessions' collections *)

MaxChunks == 2

FileNames == {<<"a">>, <<"b">>}

\* the documents whose ingestion has begun
Started == {f \in FileNames : \E m \in 1..Len(messages) : messages[m].content = StartText(f)}

\* what the loader, the splitter and the vector store can do in one run
IngestEnvs ==
    LET base == [failAt |-> 0, tick |-> 1, completion |-> ApiError, load |-> "docs",
                 split |-> "ok", chunks |-> 1, vector |-> "ok", failBatch |-> 0]
    IN  {[base EXCEPT !.chunks = n, !.failBatch = b] : n \in 0..MaxChunks, b \in {0, 1}}
        \cup {[base EXCEPT !.load = "none"], [base EXCEPT !.split = "raise"],
              [base EXCEPT !.vector = "fails"]}

\* process_file on an identifier of any spelling; it reads no session row, so
\* it runs whether or not the session exists
ProcessFile ==
    /\ \E sid \in AllIds, f \in FileNames \ Started, env \in IngestEnvs :
          SetStore(process_file(Store, sid, f, env))
    /\ call' = NoCall
    /\ UNCHANGED <<procVars, serial>>

\* retrieve on an identifier of any spelling; the ranking may put any top_k
\* rows of the collection first
Retrieve ==
    /\ call.op = "none"
    /\ \E sid \in AllIds, vector \in {"ok", "fails"} :
          \E pick \in (IF is_uuid(sid) /\ collection_name(sid) \in DOMAIN collections
                       THEN Picks(Len(collections[collection_name(sid)]), top_k)
                       ELSE {{}}) :
             LET r == retrieve(Store, sid, top_k, [vector |-> vector, pick |-> pick])
             IN  /\ call' = [op |-> "retrieve", sid |-> sid, hits |-> r.hits,
                             vector |-> vector, before |-> collections,
                             after |-> r.st.collections]
                 /\ collections' = r.st.collections
    /\ UNCHANGED <<sessions, messages, clock, faults, renameCalls, created, fileVars,
                   procVars, serial>>

NextRag ==
    \/ ProcessFile
    \/ Retrieve

InitRag == InitStore /\ faults = 0 /\ serial = TRUE
SpecRag == InitRag /\ [][NextRag]_vars

-----------------------------------------------------------------------------
(* Uploads through the UI handler and through save_file *)

MaxBatch == 2

UploadNames ==
    {<<"a",".","t","x","t">>, <<"b",".","P","D","F">>, <<"c",".","e","x","e">>,
     <<"d"," ","e",".","t","x","t">>}

\* batches of distinct files
Batches ==
    {b \in SeqsUpTo(UploadNames, MaxBatch) :
        b # <<>> /\ \A i, j \in 1..Len(b) : i # j => b[i] # b[j]}

\* what can happen to one file of a batch: its copy, its loading, its
\* splitting and the vector store's calls succeed or fail
UploadEnvs ==
    LET base == [failAt |-> 0, tick |-> 1, completion |-> ApiError, copy |-> "ok",
                 load |-> "docs", split |-> "ok", chunks |-> 1, vector |-> "ok",
                 failBatch |-> 0]
    IN  {[base EXCEPT !.chunks = n] : n \in (0..MaxChunks) \cup {batch_size + 1}}
        \cup {[base EXCEPT !.copy = "fails"], [base EXCEPT !.load = "none"],
              [base EXCEPT !.split = "raise"], [base EXCEPT !.vector = "fails"],
              [base EXCEPT !.failBatch = 1],
              [base EXCEPT !.chunks = batch_size + 1, !.failBatch = 2]}

\* what the handlers are compared against: the state before the call
Before == [collections |-> collections, disk |-> disk, files |-> files,
           messages |-> messages]

HandleFileUpload ==
    /\ call.op = "none"
    /\ \E uploads \in Batches, sid \in created \cup {MalformedId}, phone \in Phones :
          \E envs \in [1..Len(uploads) -> UploadEnvs], env \in WriteEnvs(0) :
             /\ is_uuid(sid) \/ Cardinality(created) < MaxSessions
             /\ \E r \in {handle_file_upload(Store, uploads, phone, sid, env, envs)} :
                    /\ SetStore(r.st)
                    /\ call' = [op |-> "upload", uploads |-> uploads, envs |-> envs,
                                sid |-> sid, ret |-> r.ret,
                                processed_count |-> r.processed_count,
                                failed_files |-> r.failed_files, before |-> Before]
    /\ UNCHANGED <<procVars, serial>>

SaveFile ==
    /\ call.op = "none"
    /\ \E file_data \in UploadNames, sid \in created \cup {MalformedId}, phone \in Phones,
          copy \in {"ok", "fails"} :
          LET r == save_file(Store, file_data, phone, sid,
                             [failAt |-> 0, tick |-> 1, copy |-> copy])
          IN  /\ SetStore(r)
              /\ call' = [op |-> "save_file", file_data |-> file_data, sid |-> sid,
                          result |-> r.ret, before |-> Before]
    /\ UNCHANGED <<procVars, serial>>

NextUpload ==
    \/ NewSession
    \/ HandleFileUpload
    \/ SaveFile

InitUpload == InitStore /\ faults = 0 /\ serial = TRUE
SpecUpload == InitUpload /\ [][NextUpload]_vars

-----------------------------------------------------------------------------
(* Users, their sessions and documents, and their deletion *)

AddUser ==
    /\ \E phone \in Phones : SetStore(add_user(Store, phone))
    /\ call' = NoCall
    /\ UNCHANGED <<procVars, serial>>

\* a document uploaded to a stored session and vectorized
IngestUpload ==
    /\ \E sid \in DOMAIN sessions, f \in FileNames \ Started, copy \in {"ok", "fails"},
          chunks \in 0..MaxChunks :
          LET env == [failAt |-> 0, tick |-> 1, completion |-> ApiError, copy |-> copy,
                      load |-> "docs", split |-> "ok", chunks |-> chunks,
                      vector |-> "ok", failBatch |-> 0]
              saved == save_file(Store, f \o <<".", "t", "x", "t">>, sessions[sid].phone,
                                 sid, env)
          IN  SetStore(IF saved.ret.kind = "raise" THEN saved
                       ELSE process_file(saved, sid, f, env))
    /\ call' = NoCall
    /\ UNCHANGED <<procVars, serial>>

DeleteUser ==
    /\ \E phone \in Phones :
          /\ SetStore(delete_user(Store, phone))
          /\ call' = [op |-> "delete_user", phone |-> phone,
                      sids |-> SessionsOfUser(Store, phone),
                      ret |-> delete_user(Store, phone).ret]
    /\ UNCHANGED <<procVars, serial>>

NextAdmin ==
    \/ AddUser
    \/ NewSession
    \/ IngestUpload
    \/ DeleteUser

InitAdmin == InitStore /\ faults = 0 /\ serial = TRUE
SpecAdmin == InitAdmin /\ [][NextAdmin]_vars

-----------------------------------------------------------------------------
(* Logins that make sure the user has a session *)

\* a user with sessions of their own, a user who has none until the first
\* call, and the empty phone
EnsurePhones == Phones \cup {"13900000000", NoPhone}

EnsureSession ==
    /\ \E phone \in EnsurePhones, env \in WriteEnvs(2) :
          /\ SessionsOfUser(Store, phone) = {} /\ phone # NoPhone
                => Cardinality(created) < MaxSessions
          /\ LET r == ensure_user_has_session(Store, phone, env)
             IN  /\ SetStore(r)
                 /\ call' = [op |-> "ensure", phone |-> phone, env |-> env, ret |-> r.ret,
                             before |-> [sessions |-> sessions, messages |-> messages]]
    /\ UNCHANGED <<procVars, serial>>

NextEnsure ==
    \/ NewSession
    \/ AddMessage
    \/ EnsureSession

InitEnsure == InitStore /\ faults = 0 /\ serial = TRUE
SpecEnsure == InitEnsure /\ [][NextEnsure]_vars

-----------------------------------------------------------------------------
(* The session list of a user, for any sessions and creation times *)

MaxListed == 4

\* when a session was created: <<days ago, hour>>
Stamps == ({0, 1, 2, 7, 8, 10} \X {9, 23}) \cup {<<1, 10>>}

\* the sessions the grouping scenario names
ScenarioStamps == {<<0, 9>>, <<0, 23>>, <<1, 10>>, <<10, 9>>}

\* the day and the time at which the list is built
Today == 10
Now == Today * HoursPerDay + 23

StampTime(s) == (Today - s[1]) * HoursPerDay + s[2]

\* the stamps in the order of their times
RECURSIVE Ascending(_)
Ascending(S) ==
    IF S = {} THEN <<>>
    ELSE LET s == CHOOSE x \in S : \A y \in S : StampTime(x) <= StampTime(y)
         IN  <<s>> \o Ascending(S \ {s})

\* the store holding one session per stamp, session i being the i-th created;
\* own are the stamps of the sessions of the user, the others belong to
\* another user
InitGroup ==
    /\ \E S \in SUBSET Stamps : \E own \in SUBSET S :
          /\ Cardinality(S) <= MaxListed
          /\ LET order == Ascending(S)
             IN  sessions = [s \in {Uuid(i) : i \in 1..Len(order)} |->
                               [phone |-> IF order[s.n] \in own THEN "13800000000"
                                          ELSE "13900000000",
                                title |-> DefaultTitle(s.n),
                                created |-> StampTime(order[s.n])]]
    /\ created = DOMAIN sessions
    /\ messages = <<>>
    /\ clock = Now
    /\ collections = <<>>
    /\ pc = [p \in Listeners |-> "idle"]
    /\ loc = [p \in Listeners |-> NoLocals]
    /\ login = [w \in Workers |-> NoLogin]
    /\ renameCalls = [s \in AllIds |-> 0]
    /\ turns = [s \in AllIds |-> 0]
    /\ users = {}
    /\ files = <<>>
    /\ disk = {}
    /\ call = NoCall
    /\ faults = 0
    /\ serial = TRUE

Group ==
    /\ call.op = "none"
    /\ \E phone \in Phones, env \in WriteEnvs(2) :
          /\ SessionsOfUser(Store, phone) = {} => Cardinality(created) < MaxSessions
          /\ LET r == get_grouped_sessions_for_display(Store, phone, env)
             IN  /\ SetStore(r.st)
                 /\ call' = [op |-> "group", phone |-> phone, ret |-> r.ret]
    /\ UNCHANGED <<procVars, serial>>

NextGroup == Group

SpecGroup == InitGroup /\ [][NextGroup]_vars

-----------------------------------------------------------------------------
(* Questions about the documents of a session *)

\* the document of a stored session is loaded, split into up to MaxChunks + 1
\* chunks and stored, or fails on the way
IngestDocument ==
    /\ \E sid \in created, f \in FileNames \ Started :
          \E env \in {e \in IngestEnvs : e.failBatch = 0}
                        \cup {[e EXCEPT !.chunks = MaxChunks + 1] :
                                e \in {x \in IngestEnvs : x.chunks = MaxChunks}} :
             SetStore(process_file(Store, sid, f, env))
    /\ call' = NoCall
    /\ UNCHANGED <<procVars, serial>>

Questions == {<<"w","h","y">>}

\* RAGSystem.query: retrieve, build the prompt, ask the generation service
Query ==
    /\ call.op = "none"
    /\ \E sid \in created \cup {MalformedId}, vector \in {"ok", "fails"},
          question \in Questions, completion \in {TextCompletion(<<"o","k">>), ApiError} :
          \E pick \in (IF is_uuid(sid) /\ collection_name(sid) \in DOMAIN collections
                       THEN Picks(Len(collections[collection_name(sid)]), top_k)
                       ELSE {{}}) :
             LET env == [vector |-> vector, pick |-> pick, completion |-> completion]
                 r == rag_query(Store, sid, env)
             IN  /\ call' = [op |-> "query", sid |-> sid, vector |-> vector,
                             hits |-> r.hits, context |-> Docs(r.hits),
                             prompt |-> rag_prompt(question, Docs(r.hits)),
                             ret |-> r.ret]
                 /\ collections' = r.st.collections
    /\ UNCHANGED <<sessions, messages, clock, faults, renameCalls, created, fileVars,
                   procVars, serial>>

NextQuery ==
    \/ NewSession
    \/ IngestDocument
    \/ Query

InitQuery == InitStore /\ faults = 0 /\ serial = TRUE
SpecQuery == InitQuery /\ [][NextQuery]_vars

-----------------------------------------------------------------------------
(* add_message while the database may refuse a write *)

\* one call of add_message and what it returned; env says which write of the
\* call fails, if any, and what the completion service answers when asked for
\* a title
WriteMessage ==
    /\ Len(messages) < MaxRows
    /\ \E sid \in created, role \in Roles, env \in WriteEnvs(2) :
          LET r == add_message(Store, sid, role, <<"h","i">>, env)
          IN  /\ SetStore(r)
              /\ call' = [op |-> "add_message", sid |-> sid, role |-> role,
                          ret |-> r.ret,
                          before |-> [messages |-> messages, renameCalls |-> renameCalls,
                                      sessions |-> sessions],
                          after |-> [messages |-> r.messages,
                                     renameCalls |-> r.renameCalls,
                                     sessions |-> r.sessions]]
    /\ UNCHANGED <<procVars, serial>>

NextWrite ==
    \/ NewSession
    \/ WriteMessage

InitWrite == InitStore /\ faults = MaxDbFaults /\ serial = TRUE
SpecWrite == InitWrite /\ [][NextWrite]_vars

-----------------------------------------------------------------------------
(* Files saved first and vectorized later *)

\* save_file alone: the file is on disk and has its row, processed = 0
StoreFile ==
    /\ Len(files) < MaxBatch
    /\ \E file_data \in UploadNames, sid \in created, copy \in {"ok", "fails"} :
          SetStore(save_file(Store, file_data, sessions[sid].phone, sid,
                             [failAt |-> 0, tick |-> 1, copy |-> copy]))
    /\ call' = NoCall
    /\ UNCHANGED <<procVars, serial>>

ProcessUploadedFiles ==
    /\ call.op = "none"
    /\ \E sid \in created \cup {MalformedId}, env \in IngestEnvs :
          LET r == process_uploaded_files(Store, sid, env)
          IN  /\ SetStore(r)
              /\ call' = [op |-> "process_uploaded_files", sid |-> sid, env |-> env,
                          ret |-> r.ret, before |-> Before]
    /\ UNCHANGED <<procVars, serial>>

NextBatch ==
    \/ NewSession
    \/ StoreFile
    \/ ProcessUploadedFiles

InitBatch == InitStore /\ faults = 0 /\ serial = TRUE
SpecBatch == InitBatch /\ [][NextBatch]_vars

-----------------------------------------------------------------------------
(* WebSearch.search for every course of the provider's answers *)

\* what each of the max_retries + 1 requests would do if it were made
AttemptRuns == [1..(max_retries + 1) -> AttemptOutcomes]

Search ==
    /\ call.op = "none"
    /\ \E api_key \in BOOLEAN, attempts \in AttemptRuns :
          LET r == search([api_key |-> api_key, attempts |-> attempts])
          IN  call' = [op |-> "search", api_key |-> api_key, attempts |-> attempts,
                       ret |-> r.ret, calls |-> r.calls]
    /\ UNCHANGED <<storeVars, procVars, serial>>

NextSearch == Search

InitSearch == InitStore /\ faults = 0 /\ serial = TRUE
SpecSearch == InitSearch /\ [][NextSearch]_vars

-----------------------------------------------------------------------------
(* auto_rename_session for every answer of the generation service *)

\* what the service can answer to the request for a title: a title, a quoted
\* title, a text that is too short once cleaned, nothing, or a failure
TitleCompletions ==
    {TextCompletion(<<"T","o","p","i","c">>), TextCompletion(<<" ","'","a","b","'"," ">>),
     TextCompletion(<<"\"","T","\"">>), TextCompletion(<<>>), ApiError, LlmException}

AutoRename ==
    /\ call.op = "none"
    /\ \E sid \in created, completion \in TitleCompletions, failAt \in FailChoices(1) :
          LET env == [failAt |-> failAt, tick |-> 1, completion |-> completion]
              r == auto_rename_session(Store, sid, env)
          IN  /\ SetStore(r)
              /\ call' = [op |-> "auto_rename_session", sid |-> sid,
                          completion |-> completion, ret |-> r.ret,
                          rows |-> get_messages(Store, sid, 10),
                          before |-> sessions[sid].title,
                          after |-> r.sessions[sid].title]
    /\ UNCHANGED <<procVars, serial>>

NextRename ==
    \/ NewSession
    \/ AddMessage
    \/ AutoRename

InitRename == InitStore /\ faults = MaxDbFaults /\ serial = TRUE
SpecRename == InitRename /\ [][NextRename]_vars

-----------------------------------------------------------------------------
(* Appends whose timestamps the wall clock decides *)

\* how far datetime.now() has moved since the previous reading: not at all
\* (the clock's resolution, or a clock set back to the same instant) or ahead
ClockReadings == {0, 1}

\* one add_message, stamped with the reading of the clock
AppendAt ==
    /\ Len(messages) < MaxRows
    /\ \E sid \in created, role \in Roles, tick \in ClockReadings :
          SetStore(add_message(Store, sid, role, <<"h","i">>,
                               [failAt |-> 0, tick |-> tick, completion |-> ApiError]))
    /\ UNCHANGED <<procVars, serial, call>>

NextClock ==
    \/ NewSession
    \/ AppendAt

InitClock == InitStore /\ faults = 0 /\ serial = TRUE
SpecClock == InitClock /\ [][NextClock]_vars

-----------------------------------------------------------------------------
(* One process_file call and what it added to the log *)

\* small documents, and a document of more than progress_threshold chunks
\* whose batches are all stored or whose second or third batch fails
NoticeEnvs ==
    IngestEnvs \cup {[e EXCEPT !.chunks = progress_threshold + 1, !.failBatch = b] :
                       e \in {x \in IngestEnvs : x.chunks = 1 /\ x.failBatch = 0},
                       b \in {0, 2, 3}}

Ingest ==
    /\ call.op = "none"
    /\ \E sid \in created \cup {MalformedId}, f \in FileNames, env \in NoticeEnvs :
          \E r \in {process_file(Store, sid, f, env)} :
             /\ SetStore(r)
             /\ call' = [op |-> "process_file", sid |-> sid, file_name |-> f, env |-> env,
                         ret |-> r.ret,
                         added |-> SubSeq(r.messages, Len(messages) + 1, Len(r.messages))]
    /\ UNCHANGED <<procVars, serial>>

NextIngest ==
    \/ NewSession
    \/ Ingest

InitIngest == InitStore /\ faults = 0 /\ serial = TRUE
SpecIngest == InitIngest /\ [][NextIngest]_vars

-----------------------------------------------------------------------------
(* Uploads and batch processing of a session's files, in any order *)

\* the names of the files that have a row
Uploaded == {files[k].file_name : k \in 1..Len(files)}

\* handle_file_upload with one new file of a supported type, saved and then
\* vectorized as a small document unless the vector store fails
UploadFiles ==
    /\ Len(files) < MaxBatch
    /\ \E file_data \in {n \in UploadNames : /\ sanitize_filename(n) \notin Uploaded
                                             /\ FileType(sanitize_filename(n)) \in Supported
                                             /\ n = sanitize_filename(n)},
          sid \in created, phone \in Phones, env \in WriteEnvs(0) :
          \E fenv \in {e \in UploadEnvs : /\ e.chunks \in 1..MaxChunks
                                          /\ e.load = "docs" /\ e.split = "ok"
                                          /\ e.failBatch = 0 /\ e.copy = "ok"} :
             \E r \in {handle_file_upload(Store, <<file_data>>, phone, sid, env,
                                          <<fenv>>)} :
                /\ SetStore(r.st)
                /\ call' = [op |-> "upload", sid |-> sid, file_data |-> file_data,
                            processed_count |-> r.processed_count]
    /\ UNCHANGED <<procVars, serial>>

ProcessPendingFiles ==
    /\ \E sid \in created \cup {MalformedId}, env \in IngestEnvs :
          \E r \in {process_uploaded_files(Store, sid, env)} :
             /\ SetStore(r)
             /\ call' = [op |-> "process_uploaded_files", sid |-> sid, ret |-> r.ret]
    /\ UNCHANGED <<procVars, serial>>

NextFiles ==
    \/ NewSession
    \/ UploadFiles
    \/ ProcessPendingFiles

InitFiles == InitStore /\ faults = 0 /\ serial = TRUE
SpecFiles == InitFiles /\ [][NextFiles]_vars

-----------------------------------------------------------------------------
(* Logins that run at the same time.  A call of ensure_user_has_session      *)
(* reads the user's session list and then, having found it empty, creates a  *)
(* session; another worker's call may run between the two steps.             *)

\* lines 257-262: the empty phone returns ""; otherwise the session list is
\* read
ES_Read(w) ==
    /\ login[w].pc = "idle"
    /\ \E phone \in EnsurePhones :
          login' = [login EXCEPT ![w] =
                      IF phone = NoPhone
                      THEN [NoLogin EXCEPT !.pc = "done"]
                      ELSE [NoLogin EXCEPT !.pc = "read", !.phone = phone,
                                           !.existing_sessions = get_sessions(Store, phone)]]
    /\ UNCHANGED <<storeVars, pc, loc, turns, serial, call>>

\* lines 264-268: a list that is not empty gives its first session
ES_ReturnLatest(w) ==
    /\ login[w].pc = "read"
    /\ login[w].existing_sessions # <<>>
    /\ login' = [login EXCEPT ![w].pc = "done", ![w].ret = login[w].existing_sessions[1]]
    /\ UNCHANGED <<storeVars, pc, loc, turns, serial, call>>

\* lines 270-272: an empty list makes the call create the first session
ES_Create(w) ==
    /\ login[w].pc = "read"
    /\ login[w].existing_sessions = <<>>
    /\ Cardinality(created) < MaxSessions
    /\ \E env \in WriteEnvs(2) :
          \E st \in {create_session(Store, login[w].phone, WelcomeTitle, env)} :
             /\ SetStore(st)
             /\ login' = [login EXCEPT ![w].pc = "done", ![w].ret = st.ret]
    /\ UNCHANGED <<pc, loc, turns, serial, call>>

NextLogin ==
    \E w \in Workers : ES_Read(w) \/ ES_ReturnLatest(w) \/ ES_Create(w)

InitLogin == InitStore /\ faults = MaxDbFaults /\ serial = FALSE
SpecLogin == InitLogin /\ [][NextLogin]_vars

-----------------------------------------------------------------------------
(* Properties *)

FourTimeouts == <<"timeout", "timeout", "timeout", "timeout">>

UserRows(rows) == SelectSeq(rows, LAMBDA m : m.role = "user")
AssistantRows(rows) == SelectSeq(rows, LAMBDA m : m.role = "assistant")

HasWelcome(s) ==
    /\ Log(s) # <<>>
    /\ Log(s)[1].role = "assistant"
    /\ Log(s)[1].content = WelcomeText

\* C1: once the calls of process_message have returned, the log of a session
\* that create_session created with its welcome message holds exactly 2N+1
\* rows after N turns on it: the welcome message, N user messages and N
\* assistant messages.
C1_LogHasTwoRowsPerTurn ==
    \A s \in created :
        (Idle /\ HasWelcome(s)) =>
            /\ Len(Log(s)) = 2 * turns[s] + 1
            /\ Len(UserRows(Log(s))) = turns[s]
            /\ Len(AssistantRows(Log(s))) = turns[s] + 1

\* C2: the first message in the ordered log of every session create_session
\* has returned is the assistant's welcome message.
C2_WelcomeIsFirstMessage ==
    \A s \in created : s \in DOMAIN sessions /\ HasWelcome(s)

\* C3: auto_rename_session has been invoked exactly once for every session
\* whose message count has reached 2, and not at all before that.
C3_RenamedOnceAtTwoMessages ==
    \A s \in created :
        renameCalls[s] = (IF Len(Log(s)) >= 2 THEN 1 ELSE 0)

\* C4: recognize never raises and returns a member of VALID_INTENTS for every
\* input and every behaviour of the completion service; it returns "D" when
\* the completion call fails or its text, trimmed and upper-cased, is no valid
\* code.
C4_RecognizeTotal ==
    call.op = "recognize" =>
        /\ call.result.kind = "return"
        /\ call.result.val \in VALID_INTENTS
        /\ (\/ call.completion.kind # "text"
            \/ Upper(Strip(call.completion.text)) \notin VALID_INTENTS)
              => call.result.val = <<"D">>

\* recognize was given text that is no valid code and answered "D"
C4_Witness ==
    /\ call.op = "recognize"
    /\ call.user_input.type = "str"
    /\ call.completion.kind = "text"
    /\ Strip(call.completion.text) # <<>>
    /\ Upper(Strip(call.completion.text)) \notin VALID_INTENTS
    /\ call.result = Ret(<<"D">>)

\* the handler of the call raises: a history item without a length reaches
\* the handler of intent C
HandlerRaises ==
    /\ call.op = "route"
    /\ call.user_input.type = "str"
    /\ call.intent = <<"C">>
    /\ call.history.type = "list"
    /\ \E i \in 1..Len(call.history.v) : ~call.history.v[i].sized

C6_RetrieveIsolated ==
    call.op = "retrieve" =>
        \A i \in 1..Len(call.hits) : call.hits[i].session_id = call.sid

\* retrieve on A returned chunks while another session's collection holds
\* chunks too
C6_Witness ==
    /\ call.op = "retrieve"
    /\ call.hits # <<>>
    /\ \E name \in DOMAIN collections :
          /\ name # collection_name(call.sid)
          /\ collections[name] # <<>>

\* C7: a call of process_message with an identifier that is no UUID returns
\* the identifier of the session it created and stores nothing under the
\* identifier it was given.
C7_MalformedIdReplaced ==
    (call.op = "process_message" /\ call.stored /\ ~is_uuid(call.sid)) =>
        /\ call.ret = call.sid_str
        /\ RowsOf(messages, call.sid) = <<>>

\* C8: classification and routing of a turn begin only with the turn's user
\* message stored, and process_message returns only with the reply stored.
C8_StoredBeforeProcessing ==
    \A p \in Listeners :
        /\ pc[p] \in {"recognize", "route"} => loc[p].userSaved
        /\ pc[p] = "return" => loc[p].replySaved

\* C9: no log holds two user messages in a row: the reply to a user message is
\* stored before the next user message of the session.
C9_TurnsNotInterleaved ==
    \A s \in AllIds :
        \A i \in 1..(Len(Log(s)) - 1) :
            ~(Log(s)[i].role = "user" /\ Log(s)[i + 1].role = "user")

\* C10: when every request of the search times out, the handlers of intents E
\* and F return the marker text of the failed search.
C10_TimeoutsSurfaceMarker ==
    (/\ call.op = "route"
     /\ call.user_input.type = "str"
     /\ call.intent \in {<<"E">>, <<"F">>}
     /\ call.env.api_key
     /\ call.env.attempts = FourTimeouts)
        => call.result \in {Ret(SearchFailedText), Ret(NoKeyText)}


\* what makes the run for one file of a batch fail: its type, the copy, the
\* loader, the splitter, an empty chunk list, or a call to the vector store
FileFails(file_data, env) ==
    \/ FileType(sanitize_filename(file_data)) \notin Supported
    \/ env.copy = "fails"
    \/ env.load = "none"
    \/ env.split = "raise"
    \/ env.chunks = 0
    \/ env.vector = "fails"
    \/ env.failBatch \in 1..(((env.chunks - 1) \div batch_size) + 1)

FailingFiles == {i \in 1..Len(call.uploads) : FileFails(call.uploads[i], call.envs[i])}

\* file i of the batch has its row, its copy on disk and all of its chunks,
\* in order, in the collection of session sid
SavedAndVectorized(i, sid) ==
    LET name == sanitize_filename(call.uploads[i])
        rows == collections[collection_name(uuid_str(sid))]
    IN  /\ \E k \in 1..Len(files) :
              /\ files[k].sid = sid /\ files[k].file_name = name
              /\ files[k].file_path \in disk
        /\ SelectSeq(rows, LAMBDA c : c.source = name)
              = [k \in 1..call.envs[i].chunks |-> Chunk(name, k, uuid_str(sid))]

\* C11: when exactly one file of a batch of K files given to
\* handle_file_upload fails (unsupported type, save failure, unreadable
\* document, empty chunk list or vector-store failure), each of the other K-1
\* files is saved and has exactly its chunks in the session's collection, the
\* handler counts K-1 successes and 1 failure, and the summary message, the
\* last of the session's log, reports them.
C11_OneFailureIsContained ==
    (call.op = "upload" /\ Cardinality(FailingFiles) = 1) =>
        LET K == Len(call.uploads)
            log == Log(call.ret)
        IN  /\ call.processed_count = K - 1
            /\ Len(call.failed_files) = 1
            /\ \A i \in FailingFiles :
                  call.failed_files = <<sanitize_filename(call.uploads[i])>>
            /\ log # <<>>
            /\ log[Len(log)].role = "assistant"
            /\ log[Len(log)].content = SummaryText(K - 1, 1)
            /\ \A i \in (1..K) \ FailingFiles : SavedAndVectorized(i, call.ret)

\* a batch of two files whose first file fails and whose second file is stored
\* in more than one batch of chunks
C11_Witness ==
    /\ call.op = "upload"
    /\ Len(call.uploads) = 2
    /\ FailingFiles = {1}
    /\ call.envs[2].chunks > batch_size
    /\ call.processed_count = 1

\* the text names every supported format
NamesSupportedFormats(text) == Contains(text, Join(SUPPORTED_FILE_FORMATS, <<",", " ">>))

\* C12: an upload whose extension is not supported is rejected before
\* anything is written (no directory, no copy, no file row), and the
\* rejection names the supported formats, both in save_file and in
\* handle_file_upload.
C12_UnsupportedRejectedNamingFormats ==
    /\ (/\ call.op = "save_file"
        /\ is_uuid(call.sid)
        /\ FileType(sanitize_filename(call.file_data)) \notin Supported)
          => /\ disk = call.before.disk
             /\ files = call.before.files
             /\ call.result.kind = "raise"
             /\ NamesSupportedFormats(call.result.val[1])
    /\ call.op = "upload" =>
          \A i \in 1..Len(call.uploads) :
              LET name == sanitize_filename(call.uploads[i])
              IN  FileType(name) \notin Supported =>
                    /\ \A path \in disk \ call.before.disk :
                          Len(path) = 4 => path[4] # name
                    /\ \A k \in 1..Len(files) : files[k].file_name # name
                    /\ \E m \in 1..Len(Log(call.ret)) :
                          /\ Log(call.ret)[m].role = "system"
                          /\ Contains(Log(call.ret)[m].content, FileType(name))
                          /\ NamesSupportedFormats(Log(call.ret)[m].content)

\* C13: once delete_user has deleted a session, none of its messages, of its
\* file rows or of its vector collection remains: a collection session_<sid>
\* exists only while the session <sid> is stored, or for an identifier that
\* never was a stored session.
C13_DeletionCascades ==
    /\ (call.op = "delete_user" /\ call.ret) =>
          \A s \in call.sids :
              /\ \A m \in 1..Len(messages) : messages[m].sid # s
              /\ \A f \in 1..Len(files) : files[f].sid # s
              /\ collection_name(s) \notin DOMAIN collections
    /\ \A s \in UUIDs :
          collection_name(s) \in DOMAIN collections
              => s \in DOMAIN sessions \/ s \notin created

\* the sessions of the phone's user in the store before the call
OwnBefore == {s \in DOMAIN call.before.sessions : call.before.sessions[s].phone = call.phone}

\* what holds when ensure_user_has_session returns
EnsureReturned ==
    (call.op = "ensure" /\ call.phone # NoPhone) =>
        /\ OwnBefore # {} =>
              /\ call.ret \in OwnBefore
              /\ \A s \in OwnBefore :
                    call.before.sessions[s].created <= call.before.sessions[call.ret].created
              /\ sessions = call.before.sessions
              /\ messages = call.before.messages
        /\ OwnBefore = {} =>
              /\ DOMAIN sessions = DOMAIN call.before.sessions \cup {call.ret}
              /\ call.ret \notin DOMAIN call.before.sessions
              /\ sessions[call.ret].phone = call.phone
              /\ \A s \in DOMAIN call.before.sessions : sessions[s] = call.before.sessions[s]
        /\ LET again == ensure_user_has_session(Store, call.phone, call.env)
           IN  /\ again.ret = call.ret
               /\ again.sessions = sessions
               /\ again.messages = messages

\* C14: ensure_user_has_session is idempotent: for a user with sessions it
\* returns the most recently created one and creates nothing; for a user with
\* none it creates exactly one session and returns it; called again it returns
\* the same identifier and leaves the store as the first call left it.
C14_EnsureIdempotent == [][EnsureSession => EnsureReturned']_vars

\* the first call for a user without sessions, made while another user has
\* one
C14_Witness ==
    /\ call.op = "ensure"
    /\ call.phone # NoPhone
    /\ OwnBefore = {}
    /\ call.before.sessions # <<>>
    /\ call.ret \in DOMAIN sessions

\* the positions of the headers of a list and of its session entries
Headers(ret) == {k \in 1..Len(ret) : ret[k].value = GroupMarker}
Entries(ret) == (1..Len(ret)) \ Headers(ret)

\* the header an entry stands under
HeaderOf(ret, k) == Last({h \in Headers(ret) : h < k})

\* the group the reference grouping puts a session in, by the number of days
\* between its creation and today
ReferenceGroup(created_at, today) ==
    LET days == today - Date(created_at)
    IN  IF days = 0 THEN "today"
        ELSE IF days = 1 THEN "yesterday"
        ELSE IF days <= 7 THEN "last7"
        ELSE "older"

GroupRank(name) == CHOOSE g \in 1..Len(GroupNames) : GroupNames[g] = name

\* the labels of the headers, in the order of the list
HeaderLabels(ret) == [k \in 1..Cardinality(Headers(ret)) |->
                        SelectSeq(ret, LAMBDA e : e.value = GroupMarker)[k].label]

\* C15: the list get_grouped_sessions_for_display returns is the reference
\* grouping of the user's sessions: each session appears exactly once, under
\* the header of the group its creation day gives it (today, yesterday, the
\* last 7 days, older); the groups come in that order and an empty group has
\* no header; each group starts with one header whose value is the group
\* marker and which counts its sessions; inside a group the sessions are
\* ordered by creation time, newest first.  The sessions created today 09:00,
\* today 23:00, yesterday 10:00 and 10 days ago give today: 2, yesterday: 1,
\* older: 1.
C15_ReferenceGrouping ==
    call.op = "group" =>
        LET ret == call.ret
            own == SessionsOfUser(Store, call.phone)
            today == Date(clock)
        IN  /\ {ret[k].value : k \in Entries(ret)} = own
            /\ Cardinality(Entries(ret)) = Cardinality(own)
            /\ ret # <<>> => 1 \in Headers(ret)
            /\ \A k \in Entries(ret) :
                  /\ ret[k].label.created = sessions[ret[k].value].created
                  /\ ret[HeaderOf(ret, k)].label.group
                        = ReferenceGroup(sessions[ret[k].value].created, today)
            /\ \A h \in Headers(ret) :
                  /\ ret[h].label.count > 0
                  /\ ret[h].label.count
                        = Cardinality({k \in Entries(ret) : HeaderOf(ret, k) = h})
                  /\ \A k \in (h + 1)..(h + ret[h].label.count) : k \in Entries(ret)
            /\ \A h1, h2 \in Headers(ret) :
                  h1 < h2 => GroupRank(ret[h1].label.group) < GroupRank(ret[h2].label.group)
            /\ \A k \in Entries(ret) :
                  (k + 1) \in Entries(ret)
                      => ret[k].label.created >= ret[k + 1].label.created
            /\ {sessions[s].created : s \in own} = {StampTime(t) : t \in ScenarioStamps}
                  => HeaderLabels(ret) = <<[group |-> "today", count |-> 2],
                                           [group |-> "yesterday", count |-> 1],
                                           [group |-> "older", count |-> 1]>>

\* the list for the four sessions of the scenario
C15_Witness ==
    /\ call.op = "group"
    /\ {sessions[s].created : s \in SessionsOfUser(Store, call.phone)}
          = {StampTime(t) : t \in ScenarioStamps}
    /\ Len(call.ret) = 7

\* the documents of which the collection of session sid holds exactly the
\* chunks 1..n: process_file succeeded on them with n chunks
Ingested(sid, n) ==
    {f \in FileNames :
        /\ collection_name(sid) \in DOMAIN collections
        /\ SelectSeq(collections[collection_name(sid)], LAMBDA c : c.source = f)
              = [i \in 1..n |-> Chunk(f, i, sid)]}

\* C16: after create_session and a successful process_file of a document of
\* 3 chunks, the session's collection holding no more than top_k chunks,
\* RAGSystem.query on that session retrieves a context that is not empty, and
\* the prompt given to the generation service contains the text of every
\* retrieved chunk, the document's chunk 2 among them.
C16_PromptHoldsRetrievedChunks ==
    (/\ call.op = "query"
     /\ call.vector = "ok"
     /\ call.sid \in DOMAIN sessions
     /\ Ingested(call.sid, 3) # {}
     /\ Len(collections[collection_name(call.sid)]) <= top_k) =>
        /\ call.context # <<>>
        /\ \A i \in 1..Len(call.hits) : Contains(call.prompt, call.hits[i].text)
        /\ \A f \in Ingested(call.sid, 3) :
              /\ \E i \in 1..Len(call.hits) : call.hits[i] = Chunk(f, 2, call.sid)
              /\ Contains(call.prompt, Chunk(f, 2, call.sid).text)

\* a query on a session holding a document of 3 chunks and another document
C16_Witness ==
    /\ call.op = "query"
    /\ call.vector = "ok"
    /\ call.sid \in DOMAIN sessions
    /\ Ingested(call.sid, 3) # {}
    /\ Len(call.hits) > 3
    /\ Len(call.hits) <= top_k

\* the call added its row to the messages table
Persisted ==
    /\ Len(call.after.messages) = Len(call.before.messages) + 1
    /\ SubSeq(call.after.messages, 1, Len(call.before.messages)) = call.before.messages
    /\ call.after.messages[Len(call.after.messages)].sid = call.sid
    /\ call.after.messages[Len(call.after.messages)].role = call.role

\* C17: add_message returns True only if the row was persisted: when the
\* write fails it returns False, the log is unchanged and auto-rename is not
\* looked at; when the row was persisted it returns True whether the
\* auto-rename that followed succeeded or failed.
C17_TrueOnlyIfPersisted ==
    call.op = "add_message" =>
        /\ call.ret => Persisted
        /\ ~call.ret =>
              /\ call.after.messages = call.before.messages
              /\ call.after.renameCalls = call.before.renameCalls
              /\ call.after.sessions = call.before.sessions
        /\ Persisted => call.ret

\* a persisted reply whose auto-rename ran and left the title as it was
C17_Witness ==
    /\ call.op = "add_message"
    /\ call.ret
    /\ Persisted
    /\ call.after.renameCalls[call.sid] = call.before.renameCalls[call.sid] + 1
    /\ call.after.sessions = call.before.sessions

\* the rows of the session that were unprocessed before the call and whose
\* file is on disk
Pending ==
    {k \in 1..Len(call.before.files) :
        /\ call.before.files[k].sid = call.sid
        /\ call.before.files[k].processed = 0
        /\ call.before.files[k].file_path \in call.before.disk}

\* process_file succeeds on every file in the environment env
Vectorizes(env) ==
    /\ env.load = "docs" /\ env.split = "ok" /\ env.chunks > 0
    /\ env.vector = "ok" /\ env.failBatch = 0

\* C18: process_uploaded_files(sid) processes every unprocessed file of the
\* session whose path exists, returns the number of files that succeeded, and
\* sets processed = 1 on exactly those; the flag is never set on a file whose
\* vectorization did not succeed.
C18_PendingFilesProcessed ==
    call.op = "process_uploaded_files" =>
        /\ Vectorizes(call.env) =>
              /\ call.ret = Cardinality(Pending)
              /\ \A k \in Pending : files[k].processed = 1
        /\ \A k \in 1..Len(files) :
              files[k].processed = 1 =>
                  \/ call.before.files[k].processed = 1
                  \/ k \in Pending /\ Vectorizes(call.env)

\* the strategies the handlers of the codes other than C stand for
TableStrategy(intent) ==
    IF intent \in {<<"A">>, <<"K">>} THEN {"rag"}
    ELSE IF intent \in {<<"E">>, <<"F">>, <<"J">>} THEN {"web_search"}
    ELSE IF intent \in {<<"G">>, <<"H">>} THEN {"professional_qa"}
    ELSE {}

\* C19: route dispatches each code to the handler of the table and to no
\* other strategy: A and K use only the RAG engine, C only the daily-chat
\* generator, E, F and J only web-search summarization, G and H only the
\* professional prompt; a code outside the table (D and B among them) uses no
\* handler and no service and gets the static clarification.
C19_OnlyTheTableStrategy ==
    (call.op = "route" /\ call.user_input.type = "str") =>
        /\ call.intent = <<"C">> => call.used \subseteq {"daily_chat"}
        /\ call.intent # <<"C">> => call.used = TableStrategy(call.intent)
        /\ call.intent \notin {<<"A">>, <<"C">>, <<"E">>, <<"F">>, <<"G">>, <<"H">>,
                               <<"J">>, <<"K">>}
              => call.result = Ret(UnknownIntentText)

\* C19, amended: as above, except that the daily-chat generator, and only
\* it, hands a text containing a real-time keyword to web-search
\* summarization: for C the strategies used are daily chat, and web search
\* exactly when the text contains such a keyword.
C19_TableStrategyOrRealtimeSearch ==
    (call.op = "route" /\ call.user_input.type = "str") =>
        /\ (call.intent = <<"C">> /\ ~HandlerRaises) =>
              call.used = {"daily_chat"}
                  \cup (IF _is_realtime_question(call.user_input.v) THEN {"web_search"}
                        ELSE {})
        /\ (call.intent = <<"C">> /\ HandlerRaises) => call.used = {}
        /\ call.intent # <<"C">> => call.used = TableStrategy(call.intent)
        /\ call.intent \notin {<<"A">>, <<"C">>, <<"E">>, <<"F">>, <<"G">>, <<"H">>,
                               <<"J">>, <<"K">>}
              => call.result = Ret(UnknownIntentText)

\* a daily-chat text with a real-time keyword, answered through web search
C19_Witness ==
    /\ call.op = "route"
    /\ call.intent = <<"C">>
    /\ call.user_input = Str(<<"n","o","w">>)
    /\ call.used = {"daily_chat", "web_search"}

\* request i of the call raises: a timeout, an HTTP error or another exception
AttemptFails(i) == call.attempts[i] \in {"timeout", "http_error", "error"}

\* C20: search returns a string after at most max_retries + 1 requests; a
\* request is made only if every request before it raised; the first request
\* that does not raise ends the call with its result; when every request
\* raised the failure marker is returned; without an API key no request is
\* made.
C20_BoundedRetries ==
    call.op = "search" =>
        /\ call.ret \in {NoKeyText, SnippetsText, NoResultsText, SearchFailedText}
        /\ call.calls <= max_retries + 1
        /\ ~call.api_key => call.calls = 0 /\ call.ret = NoKeyText
        /\ call.api_key =>
              /\ call.calls >= 1
              /\ \A i \in 1..(call.calls - 1) : AttemptFails(i)
              /\ ~AttemptFails(call.calls) =>
                    call.ret = (IF call.attempts[call.calls] = "results"
                                THEN SnippetsText ELSE NoResultsText)
              /\ AttemptFails(call.calls) =>
                    /\ call.calls = max_retries + 1
                    /\ call.ret = SearchFailedText

\* every request raised, each in its own way, and the marker came back
C20_Witness ==
    /\ call.op = "search"
    /\ call.api_key
    /\ call.calls = max_retries + 1
    /\ \A i \in 1..(max_retries + 1) : AttemptFails(i)
    /\ {call.attempts[i] : i \in 1..(max_retries + 1)} = {"timeout", "http_error", "error"}
    /\ call.ret = SearchFailedText

\* the title a session gets from the generation service's answer
GeneratedTitle == Sanitize(Strip(generate_text(TextCompletion(<<"T","o","p","i","c">>))))

\* step 6 of process_message with the reply stored while the generation
\* service would answer a request for a title with a valid one
SaveReplyValidTitle(p) ==
    /\ pc[p] = "save_reply"
    /\ \E env \in WriteEnvs(2) :
          /\ env.completion = TextCompletion(<<"T","o","p","i","c">>)
          /\ add_message(Store, loc[p].sid, "assistant", loc[p].reply, env).ret
          /\ SetStore(add_message(Store, loc[p].sid, "assistant", loc[p].reply, env))

\* the user turns stored in the log of s
UserTurns(s) == Len(UserRows(Log(s)))

\* C21: when process_message stores the reply of the first exchange of a
\* session create_session created (welcome message and first user message
\* stored) and the generation service returns a valid title, the session's
\* title becomes the generated title; the reply of a later turn leaves the
\* title as it is.
C21_TitleMovesAfterFirstExchange ==
    [][\A p \in Listeners :
          (/\ SaveReplyValidTitle(p)
           /\ loc[p].sid \in created
           /\ HasWelcome(loc[p].sid)
           /\ loc[p].userSaved)
             => IF UserTurns(loc[p].sid) = 1
                THEN sessions'[loc[p].sid].title = GeneratedTitle
                ELSE sessions'[loc[p].sid].title = sessions[loc[p].sid].title]_vars

\* the generation service failed, or its answer cleaned of quotes and blanks
\* has fewer than 2 characters
NoValidTitle(completion) ==
    \/ completion.kind # "text"
    \/ Len(Sanitize(Strip(completion.text))) < 2

\* C22: when the generation service fails or its cleaned answer is shorter
\* than 2 characters, auto_rename_session returns False and the session keeps
\* its title; a title is only ever replaced by the cleaned text the service
\* produced as a title.
C22_FailedRenameKeepsTitle ==
    call.op = "auto_rename_session" =>
        /\ NoValidTitle(call.completion) => (~call.ret /\ call.after = call.before)
        /\ call.after # call.before =>
              /\ call.completion.kind = "text"
              /\ call.after = Sanitize(Strip(call.completion.text))

\* the sequences over the rows of s that ORDER BY ts admits: every row once,
\* no row before a row with a smaller ts; the order of rows with equal ts is
\* the engine's choice
Replays(s) ==
    LET rows == RowsOf(messages, s)
        n == Len(rows)
        perms == {f \in [1..n -> 1..n] : \A i, j \in 1..n : i # j => f[i] # f[j]}
    IN  {[i \in 1..n |-> rows[f[i]]] :
            f \in {g \in perms : \A i, j \in 1..n : i < j => rows[g[i]].ts <= rows[g[j]].ts}}

\* C23: get_messages returns the rows of every session in the order in which
\* they were appended, also when two appends got equal timestamps, and the
\* stored timestamps of a session increase strictly in append order.
C23_ReplayIsAppendOrder ==
    \A s \in created :
        /\ get_messages(Store, s, 0) = RowsOf(messages, s)
        /\ \A r \in Replays(s) : r = RowsOf(messages, s)
        /\ \A i \in 1..(Len(RowsOf(messages, s)) - 1) :
              RowsOf(messages, s)[i].ts < RowsOf(messages, s)[i + 1].ts

\* C24: retrieve on a well-formed identifier whose collection does not exist
\* creates the collection empty and returns the empty list; on a collection
\* that exists and holds nothing it returns the empty list again and changes
\* nothing; on a malformed identifier it returns the empty list and creates
\* no collection.  (The vector store answers the calls.)
C24_RetrieveCreatesEmptyCollection ==
    (call.op = "retrieve" /\ call.vector = "ok") =>
        LET name == collection_name(call.sid)
        IN  /\ ~is_uuid(call.sid) => (call.hits = <<>> /\ call.after = call.before)
            /\ (is_uuid(call.sid) /\ name \notin DOMAIN call.before) =>
                  /\ call.hits = <<>>
                  /\ call.after = call.before @@ (name :> <<>>)
            /\ (is_uuid(call.sid) /\ name \in DOMAIN call.before) =>
                  /\ call.after = call.before
                  /\ call.before[name] = <<>> => call.hits = <<>>

\* retrieve has just created the collection of a session while another
\* session's collection holds chunks
C24_Witness ==
    /\ call.op = "retrieve"
    /\ call.vector = "ok"
    /\ is_uuid(call.sid)
    /\ collection_name(call.sid) \notin DOMAIN call.before
    /\ collection_name(call.sid) \in DOMAIN collections
    /\ call.hits = <<>>
    /\ \E name \in DOMAIN call.before : call.before[name] # <<>>

\* the notifications that end a process_file run
TerminalTexts ==
    {LoadFailedText, SplitFailedText, EmptyChunksText, VectorDownText, ProcessedText,
     StoreFailedText}

\* how many batches of the run were stored
StoredBatches(env) ==
    IF env.load = "none" \/ env.split = "raise" \/ env.chunks = 0 \/ env.vector = "fails"
    THEN 0
    ELSE IF env.failBatch # 0 /\ (env.failBatch - 1) * batch_size < env.chunks
    THEN env.failBatch - 1
    ELSE (env.chunks + batch_size - 1) \div batch_size

\* C25: a process_file call on a valid session appends to the session's log
\* one start notification, then one progress notification per stored batch
\* when the document has more than 100 chunks, then exactly one terminal
\* notification, and every one of them has role "system".
C25_NoticesAreSystemMessages ==
    (call.op = "process_file" /\ is_uuid(call.sid)) =>
        LET added == call.added
            n == Len(added)
            progress == IF call.env.chunks > progress_threshold
                        THEN StoredBatches(call.env) ELSE 0
        IN  /\ n = progress + 2
            /\ added[1].content = StartText(call.file_name)
            /\ \A i \in 2..(n - 1) : added[i].content = ProgressText
            /\ added[n].content \in TerminalTexts
            /\ \A i \in 1..n : /\ added[i].sid = uuid_str(call.sid)
                               /\ added[i].role = "system"

\* how many chunks of file i of the batch the session's collection holds
Written(i) ==
    LET name == collection_name(uuid_str(call.ret))
    IN  IF name \notin DOMAIN collections THEN 0
        ELSE Len(SelectSeq(collections[name],
                           LAMBDA c : c.source = sanitize_filename(call.uploads[i])))

\* the row of file i of the batch has processed = 1
FlagSet(i) ==
    \E k \in 1..Len(files) :
        /\ files[k].sid = call.ret
        /\ files[k].file_name = sanitize_filename(call.uploads[i])
        /\ files[k].processed = 1

ReportedFailed(i) ==
    \E j \in 1..Len(call.failed_files) :
        call.failed_files[j] = sanitize_filename(call.uploads[i])

\* C26: a file left half done between the two stores is reported as failed
\* and is not counted as processed: a file with chunks in the vector
\* collection whose processed flag is not set, and a file of which only some
\* batches were written before the vector store failed.
C26_PartialCompletionIsFailure ==
    call.op = "upload" =>
        /\ call.processed_count + Len(call.failed_files) = Len(call.uploads)
        /\ \A i \in 1..Len(call.uploads) :
              /\ (Written(i) > 0 /\ Written(i) < call.envs[i].chunks) => ReportedFailed(i)
              /\ (Written(i) > 0 /\ ~FlagSet(i)) => ReportedFailed(i)

\* the chunks process_file stored for the session that identifier s spells,
\* before the call: process_file(s, ...) writes them to the collection of
\* str(uuid.UUID(s))
IngestedUnder(s) ==
    LET name == collection_name(uuid_str(s))
    IN  IF name \in DOMAIN call.before THEN call.before[name] ELSE <<>>

\* C27: for every spelling s of a session identifier that uuid.UUID accepts,
\* retrieve(s) reads the collection process_file(s) writes to: it returns
\* top_k of the chunks ingested under s, or all of them when there are fewer.
C27_SameCollectionForEverySpelling ==
    (call.op = "retrieve" /\ call.vector = "ok" /\ is_uuid(call.sid)) =>
        /\ Len(call.hits) = Min(Len(IngestedUnder(call.sid)), top_k)
        /\ \A i \in 1..Len(call.hits) :
              \E j \in 1..Len(IngestedUnder(call.sid)) :
                  call.hits[i] = IngestedUnder(call.sid)[j]

\* C28: every stored message belongs to a stored session: no operation stores
\* a message under an identifier that has no session row.
C28_MessagesBelongToSessions ==
    \A m \in 1..Len(messages) : messages[m].sid \in DOMAIN sessions

\* the chunks of the file of row k in the collection of its session
ChunksOf(k) ==
    LET name == collection_name(uuid_str(files[k].sid))
    IN  IF name \notin DOMAIN collections THEN <<>>
        ELSE SelectSeq(collections[name], LAMBDA c : c.source = files[k].file_name)

\* C29: over any sequence of handle_file_upload and process_uploaded_files
\* calls, a saved file whose chunks handle_file_upload added to the session's
\* collection has processed = 1, so that it is not selected as unprocessed
\* again, and no chunk of a file is in the collection twice.
C29_VectorizedAtMostOnce ==
    \A k \in 1..Len(files) :
        /\ ChunksOf(k) # <<>> => files[k].processed = 1
        /\ \A i, j \in 1..Len(ChunksOf(k)) :
              i # j => ChunksOf(k)[i].chunk_index # ChunksOf(k)[j].chunk_index

\* C30: two calls of ensure_user_has_session that run at the same time for a
\* user without a session create at most one session between them and
\* return the same identifier, however their steps interleave.
C30_ConcurrentEnsureCreatesOne ==
    \A w1, w2 \in Workers :
        (/\ w1 # w2
         /\ login[w1].pc = "done" /\ login[w2].pc = "done"
         /\ login[w1].phone = login[w2].phone
         /\ login[w1].phone # NoPhone
         /\ faults = MaxDbFaults)
            => /\ count_sessions(Store, login[w1].phone) <= 1
               /\ login[w1].ret = login[w2].ret

=============================================================================
